---- MODULE Spec2Model ----
(***************************************************************************)
(* Model of feishu2md's incremental sync engine (cmd/sync.go): the         *)
(* planner (filterDocumentsForSync / shouldSyncDocument), the metadata     *)
(* store (.feishu2md/<name>.meta record files) and the worker pool of      *)
(* handleSyncRun.                                                          *)
(*                                                                         *)
(* Strings are sequences of one-character strings; a file name carries its *)
(* extension as a last token (".md", ".meta", ".csv", ".xlsx").  A path is *)
(* a sequence of names.  A record file is the sequence of its lines, each  *)
(* line a [k, v] pair standing for the text "k=v".                         *)
(***************************************************************************)
EXTENDS Integers, Sequences, FiniteSets, TLC

\* Raw concurrent_downloads values of a configuration file: 0..MaxRawConcurrent.
MaxRawConcurrent == 2

\* Remote revisions run from 1 to MaxRev.
MaxRev == 2

\* Default concurrent_downloads set by LoadSyncConfig.
DefaultConcurrentDownloads == 3

\* The configured documents (SyncConfig.Documents), in configuration order:
\* a docx document, a wiki page in group "g", a Bitable exported as CSV.
Documents ==
    << [Name |-> <<"a">>, URL |-> <<"docx/A">>, Group |-> <<>>,    Type |-> ""],
       [Name |-> <<"b">>, URL |-> <<"wiki/B">>, Group |-> <<"g">>, Type |-> ""],
       [Name |-> <<"c">>, URL |-> <<"wiki/C">>, Group |-> <<>>,    Type |-> "csv"] >>

DocIds == 1..Len(Documents)

\* SyncSettings.OutputDir of the loaded configuration.
OutputDir == << <<"o","u","t">> >>

\* The remote title of the document behind a URL (docx.Title; for a Bitable
\* the App_Table_View name exportBitable builds).
RemoteTitle(url) ==
    CASE url = <<"docx/A">> -> <<"T","/","a">>
      [] url = <<"wiki/B">> -> <<"b">>
      [] OTHER              -> <<"T","c">>

\* utils.ValidateDocumentURL: document type and token of a URL, or an error.
ValidateDocumentURL(url) ==
    CASE url = <<"docx/A">> -> [err |-> FALSE, docType |-> "docx", docToken |-> "A"]
      [] url = <<"wiki/B">> -> [err |-> FALSE, docType |-> "wiki", docToken |-> "B"]
      [] url = <<"wiki/C">> -> [err |-> FALSE, docType |-> "wiki", docToken |-> "C"]
      [] OTHER              -> [err |-> TRUE,  docType |-> "",     docToken |-> ""]

\* strings.Contains(doc.URL, "/wiki/") and strings.Contains(doc.URL, "/folder/").
UrlContainsWiki(url) == url \in { <<"wiki/B">>, <<"wiki/C">> }
UrlContainsFolder(url) == FALSE

InvalidChars == {"/", "\\", ":", "*", "?", "\"", "<", ">", "|"}

\* utils.SanitizeFileName: every character illegal in a file name becomes "_".
SanitizeFileName(s) == [i \in DOMAIN s |-> IF s[i] \in InvalidChars THEN "_" ELSE s[i]]

\* sanitizeFileName of cmd/bitable.go (names here carry no surrounding blanks).
BitableSanitizeFileName(s) ==
    LET r == [i \in DOMAIN s |-> IF s[i] \in InvalidChars THEN "_" ELSE s[i]]
    IN  IF r = <<>> THEN <<"export">> ELSE r

\* filepath.Join(dir, name) for a single non-empty name.
Join(dir, name) == Append(dir, name)

\* fmt.Sprintf("%s.md", s), "%s.meta", ...
WithExt(s, ext) == Append(s, ext)

MetaDirName == <<".feishu2md">>

VARIABLES
    organize,      \* SyncSettings.OrganizeByGroup of the configuration
    useTitle,      \* SyncSettings.UseOriginalTitle of the configuration
    lookupDown,    \* planner input: URLs whose remote lookup fails (PlanSpec)
    statDown,      \* planner input: paths whose os.Stat fails, the file being there (LookupSpec)
    files,         \* paths of the output files that exist
    meta,          \* record files: path -> lines
    rev,           \* remote RevisionID of each document
    mode,          \* SyncSettings.SyncMode of the running `sync run`
    force,         \* --force of the running `sync run`
    conc,          \* SyncSettings.ConcurrentDownloads as loaded
    phase,         \* position of handleSyncRun
    plan,          \* documentsToSync (indexes into Documents)
    next,          \* index of the dispatch loop into plan
    sem,           \* number of tokens in the semaphore channel
    wg,            \* WaitGroup counter
    wpc,           \* position of each document's worker goroutine
    fetched,       \* worker locals: actualFileName and revision downloaded
    successCount,
    errors,
    successMux,    \* holder of successMux (0: unlocked)
    errorsMux,     \* holder of errorsMux (0: unlocked)
    attempts,      \* number of worker goroutines started for each document
    outcome,       \* exit status of the run (-1: not returned yet)
    config,        \* SyncConfig.Documents of the configuration in memory
    col,           \* fieldInfo of the Bitable column being exported
    rec,           \* fields map of the Bitable record being exported
    filterImages,  \* filterImages argument of the export
    cell,          \* the cell text of a first export of (col, rec)
    cell2,         \* the cell text of a second export of (col, rec)
    export,        \* locals and effects of one exportBitable call
    resolve,       \* arguments and result of one resolveBitableAppToken call
    wiki,          \* goroutines, semaphore and channel of one downloadWiki call
    listing        \* locals of one Client.GetWikiNodeList call

vars == << organize, useTitle, lookupDown, statDown, files, meta, rev, mode, force, conc, phase, plan,
           next, sem, wg, wpc, fetched, successCount, errors, successMux,
           errorsMux, attempts, outcome, config, col, rec, filterImages, cell, cell2, export,
           resolve, wiki, listing >>

callVars == << export, resolve, wiki, listing >>
cellVars == << col, rec, filterImages, cell, cell2, callVars >>
cfgVars == << organize, useTitle, lookupDown, statDown >>
runVars == << mode, force, conc >>
fsVars  == << files, meta >>
aggVars == << successCount, errors, successMux, errorsMux >>

\* A cell that has not been exported yet.
NoCell == << "<none>" >>

\* No Bitable export is in progress (the sync run is modelled without the
\* rows of the tables it exports).
NoCall == [pc |-> "none"]

NoExport ==
    /\ export = NoCall
    /\ resolve = NoCall
    /\ wiki = NoCall
    /\ listing = NoCall
    /\ col = [typ |-> 0, id |-> "", name |-> "", options |-> << >>]
    /\ rec = << >>
    /\ filterImages = FALSE
    /\ cell = NoCell
    /\ cell2 = NoCell

(***************************************************************************)
(* The file system and the record files.                                   *)
(***************************************************************************)

\* Byte order of the characters that occur in names (os.ReadDir sorts by name).
CharOrder == << ".meta", ".md", ".csv", ".xlsx", ".feishu2md", "/", "T", "_",
                "a", "b", "c", "g", "o", "t", "u" >>

CharRank(c) == CHOOSE i \in DOMAIN CharOrder : CharOrder[i] = c

RECURSIVE NameLess(_, _)
NameLess(a, b) ==
    IF a = <<>> THEN b # <<>>
    ELSE IF b = <<>> THEN FALSE
    ELSE IF Head(a) = Head(b) THEN NameLess(Tail(a), Tail(b))
    ELSE CharRank(Head(a)) < CharRank(Head(b))

Dir(path) == SubSeq(path, 1, Len(path) - 1)
Base(path) == path[Len(path)]

\* os.Stat(path) succeeds: an output file, or a directory that holds one.
FileExists(path) == path \in files /\ path \notin statDown

\* os.ReadDir(dir) of a metadata directory: its entries sorted by name; the
\* empty sequence when the directory does not exist.
RECURSIVE SortNames(_)
SortNames(S) ==
    IF S = {} THEN <<>>
    ELSE LET m == CHOOSE x \in S : \A y \in S \ {x} : NameLess(x, y)
         IN  <<m>> \o SortNames(S \ {m})

MetaEntries(dir) == SortNames({Base(p) : p \in {q \in DOMAIN meta : Dir(q) = dir}})

MetaDirExists(dir) == \E q \in DOMAIN meta : Dir(q) = dir

\* strings.HasSuffix(entry.Name(), ".meta")
HasMetaSuffix(name) == name # <<>> /\ name[Len(name)] = ".meta"

\* The loop `for _, line := range lines { if HasPrefix(line, key+"=") { v = ...; break } }`.
FirstValue(lines, key) ==
    IF \E i \in DOMAIN lines : lines[i].k = key
    THEN lines[CHOOSE i \in DOMAIN lines :
                   /\ lines[i].k = key
                   /\ \A j \in DOMAIN lines : lines[j].k = key => i <= j].v
    ELSE <<>>

\* The same loop without break: the last matching line wins.
LastValue(lines, key) ==
    IF \E i \in DOMAIN lines : lines[i].k = key
    THEN lines[CHOOSE i \in DOMAIN lines :
                   /\ lines[i].k = key
                   /\ \A j \in DOMAIN lines : lines[j].k = key => j <= i].v
    ELSE <<>>

\* Mutant of WriteRecord: the metadata directory is recreated for each record.
WriteRecordAlone(path, lines) ==
    [p \in {q \in DOMAIN meta : Dir(q) # Dir(path)} \cup {path} |->
        IF p = path THEN lines ELSE meta[p]]

\* os.WriteFile(metadataPath, ...) of a record file.
WriteRecord(path, lines) ==
    [p \in DOMAIN meta \cup {path} |-> IF p = path THEN lines ELSE meta[p]]

\* The text saveDocumentMetadataWithFileName formats (SyncTime's value left out).
RecordLines(doc, actualFileName) ==
    << [k |-> "URL", v |-> doc.URL],
       [k |-> "Name", v |-> doc.Name],
       [k |-> "ActualFileName", v |-> actualFileName],
       [k |-> "SyncTime", v |-> <<>>] >>

(***************************************************************************)
(* The planner.                                                            *)
(***************************************************************************)

\* `actualOutputDir` of shouldSyncDocument.
PlannerOutputDir(doc, outputDir) ==
    IF organize /\ doc.Group # <<>> THEN Join(outputDir, doc.Group) ELSE outputDir

\* fmt.Sprintf("%d", docx.RevisionID)
FormatRevision(n) == << ToString(n) >>

\* sha256 over title + rendered content of the current remote document.
ContentHash(url) == << "sha256" >> \o RemoteTitle(url) \o << ToString(rev[url]) >>

\* checkDocumentByURL: TRUE when the document must be downloaded.
RECURSIVE CheckDocumentByURLFrom(_, _, _)
CheckDocumentByURLFrom(entries, outputDir, url) ==
    IF entries = <<>> THEN TRUE
    ELSE LET lines == meta[Join(Join(outputDir, MetaDirName), Head(entries))]
             storedURL == LastValue(lines, "URL")
             documentName == LastValue(lines, "DocumentName")
             actualFileName == LastValue(lines, "ActualFileName")
         IN  IF HasMetaSuffix(Head(entries)) /\ storedURL = url
             THEN IF actualFileName # <<>>
                  THEN ~FileExists(Join(outputDir, actualFileName))
                  ELSE IF documentName # <<>>
                  THEN ~FileExists(Join(outputDir, WithExt(documentName, ".md")))
                  ELSE TRUE
             ELSE CheckDocumentByURLFrom(Tail(entries), outputDir, url)

CheckDocumentByURL(outputDir, url) ==
    CheckDocumentByURLFrom(MetaEntries(Join(outputDir, MetaDirName)), outputDir, url)

\* The scan of checkTableDocumentExists: actualFileName is declared outside
\* the loop and keeps the value of the last record read that had the line.
RECURSIVE TableScan(_, _, _, _)
TableScan(entries, outputDir, url, actualFileName) ==
    IF entries = <<>> THEN [metadataExists |-> FALSE, actualFileName |-> actualFileName]
    ELSE LET lines == meta[Join(Join(outputDir, MetaDirName), Head(entries))]
             storedURL == LastValue(lines, "URL")
             name == IF \E i \in DOMAIN lines : lines[i].k = "ActualFileName"
                     THEN LastValue(lines, "ActualFileName")
                     ELSE actualFileName
         IN  IF ~HasMetaSuffix(Head(entries))
             THEN TableScan(Tail(entries), outputDir, url, actualFileName)
             ELSE IF storedURL = url
             THEN [metadataExists |-> TRUE, actualFileName |-> name]
             ELSE TableScan(Tail(entries), outputDir, url, name)

\* checkTableDocumentExists: TRUE when the table must be exported.
CheckTableDocumentExists(outputDir, url, docType) ==
    LET scan == TableScan(MetaEntries(Join(outputDir, MetaDirName)), outputDir, url, <<>>)
        expectedExt == IF docType = "xlsx" THEN ".xlsx" ELSE ".csv"
    IN  IF ~scan.metadataExists THEN TRUE
        ELSE IF scan.actualFileName = <<>>
        THEN IF docType \notin {"xlsx", "csv"} THEN TRUE
             ELSE ~\E p \in files : Dir(p) = outputDir /\ Base(p)[Len(Base(p))] = expectedExt
        ELSE ~FileExists(Join(outputDir, scan.actualFileName))

\* Mutant of CompareFingerprint: an existing file with a record is skipped
\* without comparing revisions.
CompareExistenceOnly(doc, docType, filePath, metadataPath, down) ==
    ~FileExists(filePath) \/ metadataPath \notin DOMAIN meta

\* Lines 565-668 of shouldSyncDocument: the output file, the record and the
\* comparison of the stored with the current fingerprint.  `down` holds the URLs
\* whose remote lookup (client.GetDocxContent) fails.
CompareFingerprint(doc, docType, filePath, metadataPath, down) ==
    IF ~FileExists(filePath) THEN TRUE
    ELSE IF metadataPath \notin DOMAIN meta THEN TRUE
    ELSE LET lines == meta[metadataPath]
             lastRevisionID == FirstValue(lines, "RevisionID")
             lastContentHash == FirstValue(lines, "ContentHash")
         IN  IF lastRevisionID = <<>> THEN TRUE
             ELSE IF doc.URL \in down THEN TRUE
             ELSE IF docType = "docx"
             THEN FormatRevision(rev[doc.URL]) # lastRevisionID
             ELSE IF lastContentHash = <<>> THEN TRUE
             ELSE ContentHash(doc.URL) # lastContentHash

\* shouldSyncDocument: TRUE when the document must be synced.
ShouldSyncDocument(doc, outputDir, syncMode, down) ==
    IF syncMode # "incremental" THEN TRUE
    ELSE LET actualOutputDir == PlannerOutputDir(doc, outputDir)
             v == ValidateDocumentURL(doc.URL)
             metadataDir == Join(actualOutputDir, MetaDirName)
             title == SanitizeFileName(RemoteTitle(doc.URL))
             name == SanitizeFileName(doc.Name)
         IN  IF doc.Type \in {"xlsx", "csv"}
             THEN CheckTableDocumentExists(actualOutputDir, doc.URL, doc.Type)
             ELSE IF v.err THEN TRUE
             ELSE IF useTitle /\ v.docType = "docx"
             THEN IF doc.URL \in down THEN TRUE
                  ELSE CompareFingerprint(doc, v.docType,
                           Join(actualOutputDir, WithExt(title, ".md")),
                           Join(metadataDir, WithExt(title, ".meta")), down)
             ELSE IF useTitle
             THEN CheckDocumentByURL(actualOutputDir, doc.URL)
             ELSE CompareFingerprint(doc, v.docType,
                      Join(actualOutputDir, WithExt(name, ".md")),
                      Join(metadataDir, WithExt(name, ".meta")), down)

\* filterDocumentsForSync: the documents to sync, in the order of `documents`.
RECURSIVE FilterFrom(_, _, _, _)
FilterFrom(documents, outputDir, syncMode, down) ==
    IF documents = <<>> THEN <<>>
    ELSE LET rest == FilterFrom(Tail(documents), outputDir, syncMode, down)
         IN  IF ShouldSyncDocument(Documents[Head(documents)], outputDir, syncMode, down)
             THEN <<Head(documents)>> \o rest
             ELSE rest

\* Mutant of FilterDocumentsForSync: every mode is planned as incremental.
FilterIgnoringMode(documents, outputDir, syncMode, down) ==
    FilterFrom(documents, outputDir, "incremental", down)

FilterDocumentsForSync(documents, outputDir, syncMode, down) ==
    IF syncMode # "incremental" THEN documents
    ELSE FilterFrom(documents, outputDir, syncMode, down)

(***************************************************************************)
(* handleSyncRun and its worker goroutines.                                *)
(***************************************************************************)

URLs == {Documents[d].URL : d \in DocIds}

NoFetch == [name |-> <<>>, rev |-> 0, err |-> FALSE]

\* Mutant of LoadConcurrentDownloads: no default for a missing value.
LoadConcurrentDownloadsNoDefault(raw) == raw

\* LoadSyncConfig: the default for a missing or non-positive concurrent_downloads.
LoadConcurrentDownloads(raw) == IF raw <= 0 THEN DefaultConcurrentDownloads ELSE raw

\* SyncConfig.GetDocuments("") : every configured document, in order.
GetDocuments == [i \in DocIds |-> i]

\* cleanOutputDirectory(dir): every entry of dir is removed (os.RemoveAll);
\* the paths "", "/" and "." are refused.
CleanedFiles(dir) ==
    IF dir \in {<<>>, << <<"/">> >>, << <<".">> >>} THEN files
    ELSE {p \in files : SubSeq(p, 1, Len(dir)) # dir}

CleanedMeta(dir) ==
    IF dir \in {<<>>, << <<"/">> >>, << <<".">> >>} THEN meta
    ELSE [p \in {q \in DOMAIN meta : SubSeq(q, 1, Len(dir)) # dir} |-> meta[p]]

Init ==
    /\ organize \in BOOLEAN
    /\ useTitle \in BOOLEAN
    /\ lookupDown = {}
    /\ statDown = {}
    /\ files = {}
    /\ meta = << >>
    /\ rev = [u \in URLs |-> 1]
    /\ mode = "incremental"
    /\ force = FALSE
    /\ conc = DefaultConcurrentDownloads
    /\ phase = "idle"
    /\ plan = << >>
    /\ next = 1
    /\ sem = 0
    /\ wg = 0
    /\ wpc = [d \in DocIds |-> "none"]
    /\ fetched = [d \in DocIds |-> NoFetch]
    /\ successCount = 0
    /\ errors = << >>
    /\ successMux = 0
    /\ errorsMux = 0
    /\ attempts = [d \in DocIds |-> 0]
    /\ outcome = -1
    /\ config = Documents
    /\ NoExport

\* handleSyncRun up to the planner: load the configuration and, in clean_all
\* mode or with --force, clean the output directory; a failure of the cleaning
\* (cleanOk = FALSE) is a warning and leaves the directory as it is.
StartRun(m, f, raw, cleanOk) ==
    /\ phase \in {"idle", "done"}
    /\ mode' = m
    /\ force' = f
    /\ conc' = LoadConcurrentDownloads(raw)
    /\ IF (m = "clean_all" \/ f) /\ cleanOk
       THEN files' = CleanedFiles(OutputDir) /\ meta' = CleanedMeta(OutputDir)
       ELSE UNCHANGED fsVars
    /\ phase' = "filter"
    /\ plan' = << >>
    /\ next' = 1
    /\ sem' = 0
    /\ wg' = 0
    /\ wpc' = [d \in DocIds |-> "none"]
    /\ fetched' = [d \in DocIds |-> NoFetch]
    /\ successCount' = 0
    /\ errors' = << >>
    /\ successMux' = 0
    /\ errorsMux' = 0
    /\ attempts' = [d \in DocIds |-> 0]
    /\ outcome' = -1
    /\ UNCHANGED << config, cellVars, cfgVars, rev >>

\* handleSyncRun calls filterDocumentsForSync; an empty plan ends the run.
\* `down` holds the URLs whose remote lookup fails during planning.
Filter(down) ==
    /\ phase = "filter"
    /\ plan' = FilterDocumentsForSync(GetDocuments, OutputDir, mode, down)
    /\ IF plan' = << >>
       THEN phase' = "done" /\ outcome' = 0
       ELSE phase' = "dispatch" /\ outcome' = -1
    /\ UNCHANGED << config, cellVars, cfgVars, runVars, fsVars, rev, next, sem, wg, wpc, fetched, aggVars,
                    attempts >>

\* One iteration of the dispatch loop: wg.Add(1), acquire the semaphore
\* (blocks while it holds conc tokens), start the worker goroutine.
Dispatch ==
    /\ phase = "dispatch"
    /\ next <= Len(plan)
    /\ sem < conc
    /\ wg' = wg + 1
    /\ sem' = sem + 1
    /\ wpc' = [wpc EXCEPT ![plan[next]] = "start"]
    /\ attempts' = [attempts EXCEPT ![plan[next]] = @ + 1]
    /\ next' = next + 1
    /\ phase' = IF next + 1 > Len(plan) THEN "wait" ELSE "dispatch"
    /\ UNCHANGED << config, cellVars, cfgVars, runVars, fsVars, rev, plan, fetched, aggVars, outcome >>

\* `outputDir` of the worker closure.
WorkerOutputDir(doc) ==
    IF organize /\ doc.Group # <<>> THEN Join(OutputDir, doc.Group) ELSE OutputDir

\* `docType` of syncDocument: the configured type, else detected from the URL.
SyncDocType(doc) ==
    IF doc.Type # "" THEN doc.Type
    ELSE IF UrlContainsWiki(doc.URL) THEN "wiki"
    ELSE IF UrlContainsFolder(doc.URL) THEN "folder"
    ELSE "docx"

\* `docName` of syncDocument.
SyncDocName(doc) == IF useTitle THEN <<>> ELSE doc.Name

\* `mdName` of downloadDocument.
MdName(url, docName, useOriginalTitle) ==
    IF useOriginalTitle THEN WithExt(SanitizeFileName(RemoteTitle(url)), ".md")
    ELSE IF docName # <<>> THEN WithExt(SanitizeFileName(docName), ".md")
    ELSE WithExt(<<ValidateDocumentURL(url).docToken>>, ".md")

\* `actualFileName` of exportBitable.
BitableFileName(url, format, preferName) ==
    WithExt(IF preferName # <<>> THEN BitableSanitizeFileName(preferName)
            ELSE BitableSanitizeFileName(RemoteTitle(url)),
            IF format = "csv" THEN ".csv" ELSE ".xlsx")

\* The file name the download or export of syncDocument produces.
ActualFileName(doc) ==
    IF SyncDocType(doc) \in {"csv", "xlsx"}
    THEN BitableFileName(doc.URL, SyncDocType(doc), SyncDocName(doc))
    ELSE MdName(doc.URL, SyncDocName(doc), useTitle)

\* Mutant of Download: the metadata is saved whether or not the download
\* returned an error.
DownloadSavesAnyway(d, ok) ==
    /\ wpc[d] = "start"
    /\ IF ok
       THEN /\ files' = files \cup {Join(WorkerOutputDir(Documents[d]), ActualFileName(Documents[d]))}
            /\ fetched' = [fetched EXCEPT ![d] =
                   [name |-> ActualFileName(Documents[d]), rev |-> rev[Documents[d].URL], err |-> FALSE]]
       ELSE /\ files' = files
            /\ fetched' = [fetched EXCEPT ![d] = [name |-> <<>>, rev |-> 0, err |-> TRUE]]
    /\ wpc' = [wpc EXCEPT ![d] = IF mode = "incremental" THEN "save" ELSE "report"]
    /\ UNCHANGED << config, cellVars, cfgVars, runVars, meta, rev, phase, plan, next, sem, wg, aggVars,
                    attempts, outcome >>

\* syncDocument up to the return of downloadDocument / exportBitable.
Download(d, ok) ==
    /\ wpc[d] = "start"
    /\ IF ok
       THEN /\ files' = files \cup {Join(WorkerOutputDir(Documents[d]), ActualFileName(Documents[d]))}
            /\ fetched' = [fetched EXCEPT ![d] =
                   [name |-> ActualFileName(Documents[d]), rev |-> rev[Documents[d].URL], err |-> FALSE]]
            /\ wpc' = [wpc EXCEPT ![d] = IF mode = "incremental" THEN "save" ELSE "report"]
       ELSE /\ files' = files
            /\ fetched' = [fetched EXCEPT ![d] = [name |-> <<>>, rev |-> 0, err |-> TRUE]]
            /\ wpc' = [wpc EXCEPT ![d] = "report"]
    /\ UNCHANGED << config, cellVars, cfgVars, runVars, meta, rev, phase, plan, next, sem, wg, aggVars,
                    attempts, outcome >>

\* `actualOutputDir` of saveDocumentMetadataWithFileName.
SaveOutputDir(doc, outputDir) ==
    IF organize /\ doc.Group # <<>> THEN Join(outputDir, doc.Group) ELSE outputDir

\* `metadataPath` of saveDocumentMetadataWithFileName.
SaveMetadataPath(doc, outputDir) ==
    Join(Join(SaveOutputDir(doc, outputDir), MetaDirName),
         WithExt(SanitizeFileName(doc.Name), ".meta"))

\* A writer whose failure is returned to syncDocument and fails the document.
SaveMetadataOrFail(d, written) ==
    /\ wpc[d] = "save"
    /\ meta' = IF written
               THEN WriteRecord(SaveMetadataPath(Documents[d], WorkerOutputDir(Documents[d])),
                                RecordLines(Documents[d], fetched[d].name))
               ELSE meta
    /\ fetched' = IF written THEN fetched ELSE [fetched EXCEPT ![d].err = TRUE]
    /\ wpc' = [wpc EXCEPT ![d] = "report"]
    /\ UNCHANGED << config, cellVars, cfgVars, runVars, files, rev, phase, plan, next, sem, wg,
                    aggVars, attempts, outcome >>

\* saveDocumentMetadataWithFileName, called by syncDocument with the worker's
\* outputDir; a failing MkdirAll or WriteFile is swallowed.
SaveMetadata(d, written) ==
    /\ wpc[d] = "save"
    /\ meta' = IF written
               THEN WriteRecord(SaveMetadataPath(Documents[d], WorkerOutputDir(Documents[d])),
                                RecordLines(Documents[d], fetched[d].name))
               ELSE meta
    /\ wpc' = [wpc EXCEPT ![d] = "report"]
    /\ UNCHANGED << config, cellVars, cfgVars, runVars, files, rev, phase, plan, next, sem, wg, fetched,
                    aggVars, attempts, outcome >>

\* errorsMux.Lock() after a failed syncDocument, successMux.Lock() after a
\* successful one.
Lock(d) ==
    /\ wpc[d] = "report"
    /\ IF fetched[d].err
       THEN errorsMux = 0 /\ errorsMux' = d /\ UNCHANGED successMux
       ELSE successMux = 0 /\ successMux' = d /\ UNCHANGED errorsMux
    /\ wpc' = [wpc EXCEPT ![d] = "crit"]
    /\ UNCHANGED << config, cellVars, cfgVars, runVars, fsVars, rev, phase, plan, next, sem, wg, fetched,
                    successCount, errors, attempts, outcome >>

\* Mutant of Report: a failed document is not appended to the error list.
ReportDropsError(d) ==
    /\ wpc[d] = "crit"
    /\ IF fetched[d].err
       THEN errors' = errors /\ errorsMux' = 0
            /\ UNCHANGED << successCount, successMux >>
       ELSE successCount' = successCount + 1 /\ successMux' = 0
            /\ UNCHANGED << errors, errorsMux >>
    /\ sem' = sem - 1
    /\ wg' = wg - 1
    /\ wpc' = [wpc EXCEPT ![d] = "fin"]
    /\ UNCHANGED << config, cellVars, cfgVars, runVars, fsVars, rev, phase, plan, next, fetched,
                    attempts, outcome >>

\* The append or increment, the Unlock, and the deferred semaphore release and
\* wg.Done().
Report(d) ==
    /\ wpc[d] = "crit"
    /\ IF fetched[d].err
       THEN errors' = Append(errors, d) /\ errorsMux' = 0
            /\ UNCHANGED << successCount, successMux >>
       ELSE successCount' = successCount + 1 /\ successMux' = 0
            /\ UNCHANGED << errors, errorsMux >>
    /\ sem' = sem - 1
    /\ wg' = wg - 1
    /\ wpc' = [wpc EXCEPT ![d] = "fin"]
    /\ UNCHANGED << config, cellVars, cfgVars, runVars, fsVars, rev, phase, plan, next, fetched,
                    attempts, outcome >>

\* wg.Wait() returns; the summary and the exit status.
Finish ==
    /\ phase = "wait"
    /\ wg = 0
    /\ phase' = "done"
    /\ outcome' = IF Len(errors) > 0 THEN 1 ELSE 0
    /\ UNCHANGED << config, cellVars, cfgVars, runVars, fsVars, rev, plan, next, sem, wg, wpc, fetched,
                    aggVars, attempts >>

\* The URLs of the documents that have a remote revision counter: docx
\* documents that are not exported as tables.
RevisionedURLs ==
    {Documents[d].URL : d \in {e \in DocIds :
        /\ Documents[e].Type \notin {"csv", "xlsx"}
        /\ ValidateDocumentURL(Documents[e].URL).docType = "docx"}}

\* Between runs the remote document is edited: its revision grows.
RemoteEdit(u) ==
    /\ phase \in {"idle", "done"}
    /\ u \in RevisionedURLs
    /\ rev[u] < MaxRev
    /\ rev' = [rev EXCEPT ![u] = @ + 1]
    /\ UNCHANGED << config, cellVars, cfgVars, runVars, fsVars, phase, plan, next, sem, wg, wpc, fetched,
                    aggVars, attempts, outcome >>

\* Between runs the user removes an output file.
RemoveFile(p) ==
    /\ phase \in {"idle", "done"}
    /\ p \in files
    /\ files' = files \ {p}
    /\ UNCHANGED << config, cellVars, cfgVars, runVars, meta, rev, phase, plan, next, sem, wg, wpc, fetched,
                    aggVars, attempts, outcome >>

Next ==
    \/ \E m \in {"incremental", "clean_all"}, f \in BOOLEAN,
          raw \in 0..MaxRawConcurrent, cleanOk \in BOOLEAN : StartRun(m, f, raw, cleanOk)
    \/ \E down \in SUBSET URLs : Filter(down)
    \/ Dispatch
    \/ \E d \in DocIds, ok \in BOOLEAN : Download(d, ok)
    \/ \E d \in DocIds, written \in BOOLEAN : SaveMetadata(d, written)
    \/ \E d \in DocIds : Lock(d)
    \/ \E d \in DocIds : Report(d)
    \/ Finish
    \/ \E u \in URLs : RemoteEdit(u)
    \/ \E p \in files : RemoveFile(p)

Spec == Init /\ [][Next]_vars

(***************************************************************************)
(* The metadata store as the claims see it.                                *)
(***************************************************************************)

IsDocx(d) ==
    /\ Documents[d].Type \notin {"csv", "xlsx"}
    /\ ValidateDocumentURL(Documents[d].URL).docType = "docx"

\* The record file a sync of document d writes, and the directory the planner
\* reads for d.
WrittenRecordPath(d) == SaveMetadataPath(Documents[d], WorkerOutputDir(Documents[d]))

PlannerMetaDir(d) == Join(PlannerOutputDir(Documents[d], OutputDir), MetaDirName)

\* The record file name the planner opens for d; targets found by scanning the
\* directory (tables, non-docx documents under use_original_title) have none.
PlannerScans(d) ==
    \/ Documents[d].Type \in {"csv", "xlsx"}
    \/ useTitle /\ ValidateDocumentURL(Documents[d].URL).docType # "docx"

PlannerRecordName(d) ==
    IF useTitle THEN WithExt(SanitizeFileName(RemoteTitle(Documents[d].URL)), ".meta")
    ELSE WithExt(SanitizeFileName(Documents[d].Name), ".meta")

\* lookupByURL in a metadata directory: the records that store the URL.
RecordsByURL(dir, url) ==
    {meta[p] : p \in {q \in DOMAIN meta : Dir(q) = dir /\ LastValue(meta[q], "URL") = url}}

\* The fingerprint a record stores: its revision id, else its content hash.
Fingerprint(lines) ==
    IF FirstValue(lines, "RevisionID") # <<>> THEN FirstValue(lines, "RevisionID")
    ELSE FirstValue(lines, "ContentHash")

\* The fingerprint of the remote document at revision r.
RemoteFingerprint(d, r) ==
    IF IsDocx(d) THEN FormatRevision(r)
    ELSE << "sha256" >> \o RemoteTitle(Documents[d].URL) \o << ToString(r) >>

PlanSet == {plan[i] : i \in DOMAIN plan}

\* Worker d has returned from a successful syncDocument.
SyncedOk(d) == wpc[d] \in {"report", "crit", "fin"} /\ ~fetched[d].err

(***************************************************************************)
(* The planner on an arbitrary output tree and metadata store: the inputs  *)
(* of filterDocumentsForSync are drawn from bounded sets and one planning  *)
(* step is applied.                                                        *)
(***************************************************************************)

\* The output file and the record file names a store may hold for document d.
ExpectedFileName(d) ==
    IF Documents[d].Type \in {"csv", "xlsx"}
    THEN BitableFileName(Documents[d].URL, Documents[d].Type, SyncDocName(Documents[d]))
    ELSE MdName(Documents[d].URL, SyncDocName(Documents[d]), useTitle)

StoredRevisions == {<<>>} \cup {FormatRevision(r) : r \in 1..MaxRev}

StoredHashes(d) ==
    {<<>>} \cup {<< "sha256" >> \o RemoteTitle(Documents[d].URL) \o << ToString(r) >> : r \in 1..MaxRev}

\* Record texts: the lines of saveDocumentMetadataWithFileName, with or without
\* the ActualFileName line, followed by the fingerprint lines present.
StoredLines(d, withName, revisionID, contentHash) ==
    << [k |-> "URL", v |-> Documents[d].URL], [k |-> "Name", v |-> Documents[d].Name] >>
    \o (IF withName THEN << [k |-> "ActualFileName", v |-> ExpectedFileName(d)] >> ELSE << >>)
    \o (IF revisionID # <<>> THEN << [k |-> "RevisionID", v |-> revisionID] >> ELSE << >>)
    \o (IF contentHash # <<>> THEN << [k |-> "ContentHash", v |-> contentHash] >> ELSE << >>)

\* The records the store may hold for d: none (the empty set of lines) or one.
\* A docx record is read for its revision id alone; of a wiki record's revision
\* id the planner only asks whether it is empty.
RecordChoices(d) ==
    IF Documents[d].Type \in {"csv", "xlsx"}
    THEN {<<>>} \cup {StoredLines(d, n, <<>>, <<>>) : n \in BOOLEAN}
    ELSE IF IsDocx(d)
    THEN {<<>>} \cup {StoredLines(d, TRUE, r, <<>>) : r \in StoredRevisions}
    ELSE {<<>>} \cup {StoredLines(d, TRUE, r, h) : r \in {<<>>, FormatRevision(1)},
                                                  h \in StoredHashes(d)}

\* The URLs the planner looks up remotely (client.GetDocxContent).
LookupURLs == {Documents[d].URL : d \in {e \in DocIds : Documents[e].Type \notin {"csv", "xlsx"}}}

PlannerRecordPath(d) ==
    Join(PlannerMetaDir(d),
         IF PlannerScans(d) THEN WithExt(SanitizeFileName(Documents[d].Name), ".meta")
         ELSE PlannerRecordName(d))

PlanStore ==
    /\ organize \in BOOLEAN
    /\ useTitle \in BOOLEAN
    /\ lookupDown \in SUBSET LookupURLs
    /\ \E present \in SUBSET DocIds :
          files = {Join(PlannerOutputDir(Documents[d], OutputDir), ExpectedFileName(d)) : d \in present}
    /\ \E choice \in [DocIds -> UNION {RecordChoices(d) : d \in DocIds}] :
          /\ \A d \in DocIds : choice[d] \in RecordChoices(d)
          /\ meta = [p \in {PlannerRecordPath(d) : d \in {e \in DocIds : choice[e] # <<>>}} |->
                        choice[CHOOSE d \in DocIds : PlannerRecordPath(d) = p]]
    /\ rev \in [URLs -> 1..MaxRev]
    /\ \A u \in URLs \ LookupURLs : rev[u] = 1
    /\ mode = "incremental"
    /\ force = FALSE
    /\ conc = DefaultConcurrentDownloads
    /\ phase = "filter"
    /\ plan = << >>
    /\ next = 1
    /\ sem = 0
    /\ wg = 0
    /\ wpc = [d \in DocIds |-> "none"]
    /\ fetched = [d \in DocIds |-> NoFetch]
    /\ successCount = 0
    /\ errors = << >>
    /\ successMux = 0
    /\ errorsMux = 0
    /\ attempts = [d \in DocIds |-> 0]
    /\ outcome = -1
    /\ config = Documents
    /\ NoExport

\* Every os.Stat of the planner answers.
PlanInit == PlanStore /\ statDown = {}

\* filterDocumentsForSync with the lookups of lookupDown failing.
PlanFilter == Filter(lookupDown)

PlanNext == PlanFilter

PlanSpec == PlanInit /\ [][PlanNext]_vars

(***************************************************************************)
(* C1.  In incremental mode, a docx document that a run synced             *)
(* successfully, whose record file was written, whose remote revision has  *)
(* not changed since the fetch and whose output file is still there, is    *)
(* excluded by the planner of the next run.                                *)
(***************************************************************************)
C1_SyncedDocxIsSkippedNextRun ==
    \A d \in DocIds :
        ( /\ phase = "done"
          /\ mode = "incremental"
          /\ IsDocx(d)
          /\ SyncedOk(d)
          /\ WrittenRecordPath(d) \in DOMAIN meta
          /\ rev[Documents[d].URL] = fetched[d].rev
          /\ FileExists(Join(WorkerOutputDir(Documents[d]), fetched[d].name)) )
        => ~ShouldSyncDocument(Documents[d], OutputDir, "incremental", {})

(***************************************************************************)
(* C2.  In incremental mode the plan holds exactly the targets whose       *)
(* stored fingerprint differs from the current remote one or that have no  *)
(* record: a target with an equal stored fingerprint is excluded, every    *)
(* other target is included.                                               *)
(***************************************************************************)
StoredFingerprints(d) ==
    {Fingerprint(r) : r \in RecordsByURL(PlannerMetaDir(d), Documents[d].URL)}

PlannerFileName(d) ==
    IF useTitle THEN WithExt(SanitizeFileName(RemoteTitle(Documents[d].URL)), ".md")
    ELSE WithExt(SanitizeFileName(Documents[d].Name), ".md")

StoredRevisionIsCurrent(d) ==
    /\ PlannerRecordPath(d) \in DOMAIN meta
    /\ FirstValue(meta[PlannerRecordPath(d)], "RevisionID") = FormatRevision(rev[Documents[d].URL])

C3_RoundTripFingerprint ==
    [][ \A d \in DocIds :
          (wpc[d] = "save" /\ wpc'[d] = "report" /\ meta' # meta)
          => \E r \in {meta'[p] : p \in {q \in DOMAIN meta' :
                          Dir(q) = Dir(WrittenRecordPath(d))
                          /\ LastValue(meta'[q], "URL") = Documents[d].URL}} :
                /\ LastValue(r, "ActualFileName") = fetched[d].name
                /\ Fingerprint(r) = RemoteFingerprint(d, fetched[d].rev) ]_vars

(***************************************************************************)
(* C4.  The record file a successful sync writes is the file the planner   *)
(* reads for the target: it lies in .feishu2md under the resolved output   *)
(* directory (output dir joined with the group once when organizing by     *)
(* group), under the record file name the planner uses.                    *)
(***************************************************************************)
C4_WrittenRecordIsPlannerRecord ==
    [][ \A d \in DocIds :
          (wpc[d] = "save" /\ wpc'[d] = "report" /\ meta' # meta)
          => /\ Dir(WrittenRecordPath(d)) = PlannerMetaDir(d)
             /\ PlannerScans(d) \/ Base(WrittenRecordPath(d)) = PlannerRecordName(d) ]_vars

(***************************************************************************)
(* C5.  In clean_all mode the plan is the full list of configured targets, *)
(* in configuration order, whatever the output tree and the store hold.    *)
(***************************************************************************)
C5_CleanAllPlansEverything ==
    (mode = "clean_all" /\ phase \in {"dispatch", "wait", "done"}) => plan = GetDocuments

\* A clean_all run whose cleaning failed, planned over a store that makes the
\* incremental planner skip a target.
C5_Witness ==
    /\ mode = "clean_all"
    /\ phase = "dispatch"
    /\ next = 1
    /\ plan = GetDocuments
    /\ \E d \in DocIds : ~ShouldSyncDocument(Documents[d], OutputDir, "incremental", {})

(***************************************************************************)
(* C6.  The metadata store changes only when a worker has successfully     *)
(* fetched a document.                                                     *)
(***************************************************************************)
SavedBy(d) == wpc[d] = "save" /\ wpc'[d] = "report" /\ ~fetched[d].err

CleaningStep ==
    phase \in {"idle", "done"} /\ phase' = "filter" /\ (mode' = "clean_all" \/ force')

C6_StoreChangesOnlyOnFetch ==
    [][ meta' # meta => \E d \in DocIds : SavedBy(d) ]_vars

\* C6 as amended: a record is written only by a worker whose fetch succeeded;
\* the only other change of the store is the cleaning of the output directory
\* at the start of a clean_all or --force run.  Planning changes neither the
\* records nor the output files, and no step of a worker whose fetch failed
\* changes a record.
C6_StoreFrame ==
    [][ /\ meta' # meta => (CleaningStep \/ \E d \in DocIds : SavedBy(d))
        /\ phase = "filter" => (meta' = meta /\ files' = files)
        /\ \A d \in DocIds :
              (wpc'[d] \notin {wpc[d], "none"} /\ (fetched[d].err \/ fetched'[d].err))
                  => meta' = meta ]_vars

\* A failed document has been reported while its record of an earlier run is
\* still in the store.
C6_Witness ==
    \E d \in DocIds :
        /\ wpc[d] = "fin"
        /\ fetched[d].err
        /\ WrittenRecordPath(d) \in DOMAIN meta

(***************************************************************************)
(* C7.  A metadata record, once created, exists in every later state.      *)
(***************************************************************************)
C7_RecordNeverRemoved ==
    [][ \A p \in DOMAIN meta : p \in DOMAIN meta' ]_vars

\* C7 as amended: a record is removed only by the cleaning of the output
\* directory at the start of a clean_all or --force run; every other step,
\* and every incremental run without --force, keeps every record.
C7_RecordRemovedOnlyByCleaning ==
    [][ (\E p \in DOMAIN meta : p \notin DOMAIN meta') => CleaningStep ]_vars

\* An incremental run without --force has completed while the record of a
\* document it did not sync is still in the store next to a record it wrote.
C7_Witness ==
    /\ phase = "done"
    /\ mode = "incremental"
    /\ ~force
    /\ \E d, e \in DocIds :
          /\ wpc[d] = "none"
          /\ WrittenRecordPath(d) \in DOMAIN meta
          /\ wpc[e] = "fin"
          /\ ~fetched[e].err
          /\ WrittenRecordPath(e) \in DOMAIN meta
          /\ Dir(WrittenRecordPath(e)) = Dir(WrittenRecordPath(d))

InFlight == {d \in DocIds : wpc[d] \in {"start", "save", "report", "crit"}}

RunStep ==
    \/ Dispatch
    \/ \E d \in DocIds, ok \in BOOLEAN : Download(d, ok)
    \/ \E d \in DocIds, written \in BOOLEAN : SaveMetadata(d, written)
    \/ \E d \in DocIds : Lock(d)
    \/ \E d \in DocIds : Report(d)
    \/ Finish

PcRank(pc) ==
    CASE pc = "none" -> 0 [] pc = "start" -> 1 [] pc = "save" -> 2
      [] pc = "report" -> 3 [] pc = "crit" -> 4 [] OTHER -> 5

RECURSIVE SumRank(_)
SumRank(S) ==
    IF S = {} THEN 0
    ELSE LET d == CHOOSE x \in S : TRUE IN PcRank(wpc[d]) + SumRank(S \ {d})

\* Grows with every step of a run and is bounded by 6 * Len(Documents) + 2.
RunMeasure == next + SumRank(DocIds) + (IF phase = "done" THEN 1 ELSE 0)

C9_BoundedWorkersProgress ==
    /\ [](/\ conc >= 1
          /\ Cardinality(InFlight) <= conc
          /\ Cardinality(InFlight) = sem
          /\ phase \in {"dispatch", "wait"} => ENABLED RunStep
          /\ (phase = "wait" /\ \A d \in PlanSet : wpc[d] = "fin") => ENABLED Finish)
    /\ [][ (phase \in {"dispatch", "wait"}) => RunMeasure' > RunMeasure ]_vars

\* The dispatch loop is blocked on a full semaphore while workers run.
C9_Witness ==
    /\ phase = "dispatch"
    /\ next <= Len(plan)
    /\ sem = conc
    /\ Cardinality(InFlight) = conc

(***************************************************************************)
(* C10.  Workers share no mutable state but the success counter and the    *)
(* error list, each accessed only under its lock: no two workers are ever  *)
(* at an unsynchronized write of the same variable at the same time.       *)
(***************************************************************************)

\* Worker d stands at `dlConfig = *config`, the first statement of
\* syncDocument: an unlocked write of the package variable dlConfig.
AtDlConfigWrite(d) == wpc[d] = "start"

C10_NoUnsynchronizedSharedWrite ==
    /\ [](\A d, e \in DocIds : (d # e) => ~(AtDlConfigWrite(d) /\ AtDlConfigWrite(e)))
    /\ [][ /\ successCount' # successCount =>
                 \/ successMux # 0 /\ wpc[successMux] = "crit"
                 \/ phase' = "filter"
           /\ errors' # errors =>
                 \/ errorsMux # 0 /\ wpc[errorsMux] = "crit"
                 \/ phase' = "filter" ]_vars

(***************************************************************************)
(* The configuration file: LoadSyncConfig, `sync add`, `sync remove`.      *)
(* Here `config` is the document list of the configuration file, which     *)
(* LoadSyncConfig returns as it is written.                                *)
(***************************************************************************)

\* At most MaxDocs documents are configured.
MaxDocs == 2

ConfigNames == { <<"a">>, <<"a","/","b">>, <<"a","_","b">> }
ConfigGroups == { <<>>, <<"g">> }

\* The DocConfig entries a configuration file may hold.
DocConfigs == [Name : ConfigNames, URL : URLs, Group : ConfigGroups, Type : {""}]

RECURSIVE DocLists(_)
DocLists(n) ==
    IF n = 0 THEN { << >> }
    ELSE DocLists(n - 1) \cup
         { Append(l, c) : l \in {k \in DocLists(n - 1) : Len(k) = n - 1}, c \in DocConfigs }

\* No sync run is in progress.
NoRun ==
    /\ lookupDown = {}
    /\ statDown = {}
    /\ files = {}
    /\ meta = << >>
    /\ rev = [u \in URLs |-> 1]
    /\ mode = "incremental"
    /\ force = FALSE
    /\ conc = DefaultConcurrentDownloads
    /\ phase = "idle"
    /\ plan = << >>
    /\ next = 1
    /\ sem = 0
    /\ wg = 0
    /\ wpc = [d \in DocIds |-> "none"]
    /\ fetched = [d \in DocIds |-> NoFetch]
    /\ successCount = 0
    /\ errors = << >>
    /\ successMux = 0
    /\ errorsMux = 0
    /\ attempts = [d \in DocIds |-> 0]
    /\ outcome = -1

runState == << lookupDown, statDown, files, meta, rev, mode, force, conc, phase, plan, next, sem, wg,
               wpc, fetched, successCount, errors, successMux, errorsMux, attempts, outcome >>

\* NewSyncConfig: a configuration without documents.
ConfigInit ==
    /\ organize \in BOOLEAN
    /\ useTitle \in BOOLEAN
    /\ config = << >>
    /\ NoRun
    /\ NoExport

\* The user writes the configuration file by hand; LoadSyncConfig unmarshals
\* whatever document list the file holds, without any validation.
WriteConfigFile(docs) ==
    /\ config' = docs
    /\ UNCHANGED << organize, useTitle, runState, cellVars >>

\* handleSyncAdd: LoadSyncConfig, AddDocument (refused when the URL or the
\* name is already configured), Save.
AddDocument(name, url, group) ==
    /\ Len(config) < MaxDocs
    /\ \A i \in DOMAIN config : config[i].URL # url /\ config[i].Name # name
    /\ config' = Append(config, [Name |-> name, URL |-> url, Group |-> group, Type |-> ""])
    /\ UNCHANGED << organize, useTitle, runState, cellVars >>

\* `c.Documents[:i]` followed by `c.Documents[i+1:]` (i counted from 1 here).
WithoutDocument(docs, i) == SubSeq(docs, 1, i - 1) \o SubSeq(docs, i + 1, Len(docs))

\* handleSyncRemove with a numeric argument: the document at that index.
RemoveDocumentAt(index) ==
    /\ index >= 0 /\ index < Len(config)
    /\ config' = WithoutDocument(config, index + 1)
    /\ UNCHANGED << organize, useTitle, runState, cellVars >>

\* handleSyncRemove with a name: the first document of that name.
RemoveDocumentNamed(name) ==
    /\ \E i \in DOMAIN config : config[i].Name = name
    /\ config' = WithoutDocument(config,
                    CHOOSE i \in DOMAIN config :
                        /\ config[i].Name = name
                        /\ \A j \in DOMAIN config : config[j].Name = name => i <= j)
    /\ UNCHANGED << organize, useTitle, runState, cellVars >>

ConfigNext ==
    \/ \E docs \in DocLists(MaxDocs) : WriteConfigFile(docs)
    \/ \E n \in ConfigNames, u \in URLs, g \in ConfigGroups : AddDocument(n, u, g)
    \/ \E i \in 0..MaxDocs : RemoveDocumentAt(i)
    \/ \E n \in ConfigNames : RemoveDocumentNamed(n)

ConfigSpec == ConfigInit /\ [][ConfigNext]_vars

\* The record file a worker writes for a configured document.
RecordPathOf(doc) == SaveMetadataPath(doc, WorkerOutputDir(doc))

(***************************************************************************)
(* C11.  For every configuration that can be loaded, distinct configured   *)
(* documents (entries of different names and different URLs) have distinct *)
(* record file paths, so that no two workers of a run write the same       *)
(* record file.                                                            *)
(***************************************************************************)
C11_DistinctRecordPaths ==
    \A i, j \in DOMAIN config :
        (config[i].Name # config[j].Name /\ config[i].URL # config[j].URL)
            => RecordPathOf(config[i]) # RecordPathOf(config[j])

(***************************************************************************)
(* A sync run that is interrupted: the process is killed while it          *)
(* dispatches or waits; the output tree and the record files stay as the   *)
(* workers left them.                                                      *)
(***************************************************************************)
Interrupt ==
    /\ phase \in {"dispatch", "wait"}
    /\ phase' = "idle"
    /\ mode' = "incremental"
    /\ force' = FALSE
    /\ conc' = DefaultConcurrentDownloads
    /\ plan' = << >>
    /\ next' = 1
    /\ sem' = 0
    /\ wg' = 0
    /\ wpc' = [d \in DocIds |-> "none"]
    /\ fetched' = [d \in DocIds |-> NoFetch]
    /\ successCount' = 0
    /\ errors' = << >>
    /\ successMux' = 0
    /\ errorsMux' = 0
    /\ attempts' = [d \in DocIds |-> 0]
    /\ outcome' = -1
    /\ UNCHANGED << config, cellVars, cfgVars, fsVars, rev >>

CrashNext == Next \/ Interrupt

CrashSpec == Init /\ [][CrashNext]_vars

\* Worker d has started the fetch of its document and has not written the
\* document's record yet.
MidFetch(d) == wpc[d] \in {"start", "save"}

(***************************************************************************)
(* C12.  When a run is interrupted after the fetch of a document started   *)
(* and before its record was written, the planner of an incremental run on *)
(* the output tree and the store the interruption leaves includes the      *)
(* document, whether or not the remote lookups succeed.                    *)
(***************************************************************************)
C12_InterruptedDocumentIsPlanned ==
    [][ (phase \in {"dispatch", "wait"} /\ phase' = "idle")
        => \A d \in DocIds :
              MidFetch(d) =>
                 \A down \in SUBSET URLs :
                    ShouldSyncDocument(Documents[d], OutputDir, "incremental", down) ]_vars

(***************************************************************************)
(* C13.  A run with --force hands every configured document to the         *)
(* workers, in either sync mode: once planned, the plan of a --force run   *)
(* is the full configured list.                                            *)
(***************************************************************************)
C13_ForcePlansEverything ==
    (force /\ phase \in {"dispatch", "wait", "done"}) => plan = GetDocuments

(***************************************************************************)
(* The Bitable cell normalizer of cmd/bitable.go (extractField,            *)
(* formatFieldValue and their helpers).                                    *)
(*                                                                         *)
(* A raw value (Go's interface{}) is a record whose tag t says which of    *)
(* its fields counts: nil, a string s (a sequence of characters), a number *)
(* n, an array a or a map m from keys to raw values.  A number is a        *)
(* non-negative int64, or a float64 holding one, written hi * 10^6 + lo so *)
(* that the 10^11 threshold of formatTimeValue is inside the range.        *)
(***************************************************************************)
Zero == [hi |-> 0, lo |-> 0]
Nil == [t |-> "nil", s |-> << >>, n |-> Zero, a |-> << >>, m |-> [k \in {} |-> 0]]
Str(x) == [Nil EXCEPT !.t = "str", !.s = x]
Num(h, l) == [Nil EXCEPT !.t = "num", !.n = [hi |-> h, lo |-> l]]
Arr(x) == [Nil EXCEPT !.t = "arr", !.a = x]
Map(x) == [Nil EXCEPT !.t = "map", !.m = x]
EmptyMap == Map([k \in {} |-> 0])

\* `x, ok := m[k]` and `m[k]` of a map[string]interface{}.
HasKey(m, k) == k \in DOMAIN m.m
Get(m, k) == IF k \in DOMAIN m.m THEN m.m[k] ELSE Nil

\* `s, ok := m[k].(string)`
IsString(x) == x.t = "str"
IsMap(x) == x.t = "map"
IsArray(x) == x.t = "arr"

\* The digits of lo, written with six digits.
Digits6(lo) ==
    << ToString((lo \div 100000) % 10), ToString((lo \div 10000) % 10),
       ToString((lo \div 1000) % 10),   ToString((lo \div 100) % 10),
       ToString((lo \div 10) % 10),     ToString(lo % 10) >>

RECURSIVE DropZeros(_)
DropZeros(s) == IF Len(s) > 1 /\ Head(s) = "0" THEN DropZeros(Tail(s)) ELSE s

\* The decimal digits of a number.
Decimal(n) == DropZeros(Digits6(n.hi \div 1000000) \o Digits6(n.hi % 1000000) \o Digits6(n.lo))

\* strings.Join(parts, sep)
RECURSIVE JoinStrings(_, _)
JoinStrings(parts, sep) ==
    IF parts = << >> THEN << >>
    ELSE IF Len(parts) = 1 THEN parts[1]
    ELSE parts[1] \o sep \o JoinStrings(Tail(parts), sep)

\* Byte order of the map keys that occur (fmt prints a map sorted by key).
KeyOrder == << "NAME", "Name", "attachmentToken", "fld", "id", "link", "name", "options",
               "record_ids", "text", "text_arr", "type", "value", "value_extra" >>

KeyRank(k) == CHOOSE i \in DOMAIN KeyOrder : KeyOrder[i] = k

RECURSIVE SortKeys(_)
SortKeys(S) ==
    IF S = {} THEN << >>
    ELSE LET m == CHOOSE x \in S : \A y \in S : KeyRank(x) <= KeyRank(y)
         IN  << m >> \o SortKeys(S \ {m})

\* fmt.Sprint(v)
RECURSIVE Sprint(_)
Sprint(x) ==
    CASE x.t = "nil" -> << "<nil>" >>
      [] x.t = "str" -> x.s
      [] x.t = "num" -> Decimal(x.n)
      [] x.t = "arr" ->
            << "[" >> \o JoinStrings([i \in DOMAIN x.a |-> Sprint(x.a[i])], << " " >>) \o << "]" >>
      [] OTHER ->
            LET keys == SortKeys(DOMAIN x.m)
            IN  << "map[" >>
                \o JoinStrings([i \in DOMAIN keys |-> << keys[i], ":" >> \o Sprint(x.m[keys[i]])],
                               << " " >>)
                \o << "]" >>

\* strings.ToLower of a key or of a file extension.
ToLower(k) ==
    CASE k = "NAME" -> "name" [] k = "Name" -> "name" [] k = ".PNG" -> ".png" [] OTHER -> k

ImageExts == {".png", ".jpg", ".jpeg", ".gif", ".bmp", ".webp", ".svg", ".ico", ".tiff", ".tif"}

\* isImageFile: the lower-cased name ends with an image extension.
IsImageFile(filename) ==
    filename # << >> /\ ToLower(filename[Len(filename)]) \in ImageExts

\* strings.TrimPrefix(s, "[") and strings.TrimSuffix(s, "]")
TrimPrefix(s, c) == IF s # << >> /\ Head(s) = c THEN Tail(s) ELSE s
TrimSuffix(s, c) == IF s # << >> /\ s[Len(s)] = c THEN SubSeq(s, 1, Len(s) - 1) ELSE s

\* `s, ok := m[k].(string)`: the string, or "" when the key is absent or not a string.
StringAt(m, k) == IF IsString(Get(m, k)) THEN Get(m, k).s ELSE << >>

\* fmt.Sprint of every element of an array.
SprintAll(arr) == [i \in DOMAIN arr.a |-> Sprint(arr.a[i])]

NonEmptyParts(parts) == SelectSeq(parts, LAMBDA s : s # << >>)

RECURSIVE Flatten(_)
Flatten(ss) == IF ss = << >> THEN << >> ELSE Head(ss) \o Flatten(Tail(ss))

\* Every way of taking one element from each set of a sequence of sets.
RECURSIVE Choices(_)
Choices(sets) ==
    IF sets = << >> THEN { << >> }
    ELSE { << h >> \o t : h \in Head(sets), t \in Choices(Tail(sets)) }

\* A lookup that yields nothing for an id the options do not hold.
OptionNameOrEmpty(options, id) ==
    IF \E i \in DOMAIN options : options[i].ID = id /\ options[i].Name # << >>
    THEN (CHOOSE o \in { options[i] : i \in DOMAIN options } : o.ID = id).Name
    ELSE << >>

\* mapSelectOptionName, the lookup: the name of the first option whose id is
\* id when that name is not empty, else the id.
OptionNameOf(options, id) ==
    IF \E i \in DOMAIN options : options[i].ID = id
    THEN LET i == CHOOSE j \in DOMAIN options :
                     options[j].ID = id /\ \A k \in 1..(j - 1) : options[k].ID # id
         IN  IF options[i].Name # << >> THEN options[i].Name ELSE id
    ELSE id

MapSelectOptionName(options, v) ==
    IF IsMap(v) /\ ~IsString(Get(v, "id")) /\ IsString(Get(v, "name"))
    THEN Get(v, "name").s
    ELSE LET id0 == IF IsMap(v) /\ IsString(Get(v, "id")) THEN Get(v, "id").s ELSE Sprint(v)
             id  == TrimSuffix(TrimPrefix(id0, "["), "]")
         IN  OptionNameOf(options, id)

\* pickStringField: m[key] when it is a string; else the first string found
\* under a key equal to `key` up to letter case, in the iteration order of the
\* Go map, which is any order; else fmt.Sprint(v).  The set of the results.
PickStringField(v, key) ==
    IF IsMap(v) /\ IsString(Get(v, key)) THEN { Get(v, key).s }
    ELSE LET folded == IF IsMap(v)
                       THEN { k \in DOMAIN v.m : ToLower(k) = ToLower(key) /\ IsString(v.m[k]) }
                       ELSE {}
         IN  IF folded # {} THEN { v.m[k].s : k \in folded } ELSE { Sprint(v) }

\* The values joinList applies mapFn to.
ListItems(v) == IF IsArray(v) THEN { v.a[i] : i \in DOMAIN v.a } ELSE { v }

\* joinList, mapFn being given as the function from each item to the set of the
\* strings it may return.
JoinList(v, mapFn) ==
    IF IsArray(v)
    THEN IF v.a = << >> THEN { << >> }
         ELSE { JoinStrings(NonEmptyParts(out), << "," >>) :
                    out \in Choices([i \in DOMAIN v.a |-> mapFn[v.a[i]]]) }
    ELSE IF v = Nil THEN { << >> }
    ELSE mapFn[v]

\* A number times ten plus a digit.
PushDigit(n, d) ==
    [hi |-> n.hi * 10 + (n.lo * 10 + d) \div 1000000, lo |-> (n.lo * 10 + d) % 1000000]

Digits == { ToString(d) : d \in 0..9 }
DigitValue(c) == CHOOSE d \in 0..9 : ToString(d) = c

RECURSIVE ParseDigits(_, _)
ParseDigits(s, n) == IF s = << >> THEN n ELSE ParseDigits(Tail(s), PushDigit(n, DigitValue(Head(s))))

RECURSIVE TimesTenTo(_, _)
TimesTenTo(n, e) == IF e = 0 THEN n ELSE TimesTenTo(PushDigit(n, 0), e - 1)

\* strings.TrimSpace
RECURSIVE TrimSpace(_)
TrimSpace(s) ==
    IF s # << >> /\ Head(s) = " " THEN TrimSpace(Tail(s))
    ELSE IF s # << >> /\ s[Len(s)] = " " THEN TrimSpace(SubSeq(s, 1, Len(s) - 1))
    ELSE s

IsDigits(s) == s # << >> /\ \A i \in DOMAIN s : s[i] \in Digits

\* toInt of formatTimeValue: [ok, n].  A number is taken as it is; a string is
\* trimmed and parsed as a decimal integer, else as a float in scientific
\* notation (digits "e" digits), else it is not a number.
ToInt(x) ==
    CASE x.t = "num" -> [ok |-> TRUE, n |-> x.n]
      [] x.t = "str" ->
            LET s == TrimSpace(x.s)
                es == { i \in DOMAIN s : s[i] = "e" }
            IN  IF IsDigits(s) THEN [ok |-> TRUE, n |-> ParseDigits(s, Zero)]
                ELSE IF \E i \in es : es = {i} /\ IsDigits(SubSeq(s, 1, i - 1))
                                               /\ IsDigits(SubSeq(s, i + 1, Len(s)))
                THEN LET i == CHOOSE j \in es : TRUE
                     IN  [ok |-> TRUE,
                          n |-> TimesTenTo(ParseDigits(SubSeq(s, 1, i - 1), Zero),
                                           ParseDigits(SubSeq(s, i + 1, Len(s)), Zero).lo)]
                ELSE [ok |-> FALSE, n |-> Zero]
      [] OTHER -> [ok |-> FALSE, n |-> Zero]

\* n > 100_000_000_000
AboveMsThreshold(n) == n.hi > 100000 \/ (n.hi = 100000 /\ n.lo > 0)

\* n / 1000
DivThousand(n) == [hi |-> n.hi \div 1000, lo |-> (n.hi % 1000) * 1000 + n.lo \div 1000]

\* time.Unix(sec, 0).Format("2006-01-02 15:04:05"): the local date and time of
\* the instant sec seconds after the epoch, written here by naming the instant.
FormatUnix(sec) == << "time.Unix(" >> \o Decimal(sec) \o << ")" >>

\* A rendering that takes every timestamp as seconds.
FormatTimeValueSeconds(v) ==
    LET r == ToInt(v)
    IN  IF ~r.ok \/ r.n = Zero THEN << >> ELSE FormatUnix(r.n)

\* formatTimeValue
FormatTimeValue(v) ==
    LET r == ToInt(v)
    IN  IF ~r.ok \/ r.n = Zero THEN << >>
        ELSE IF AboveMsThreshold(r.n) THEN FormatUnix(DivThousand(r.n))
        ELSE FormatUnix(r.n)

SingleOption == << "single_option" >>
MultiOption == << "multi_option" >>
TextType == << "text" >>
EmptyMapText == << "map[", "]" >>
EmptyArrayText == << "[", "]" >>

\* `filterImages && isImageFile(s)`
ImageFiltered(s, filter) == filter /\ IsImageFile(s)

\* extractField: the value under the field's name, else under its id, else
\* under the first key equal to the name up to letter case in the iteration
\* order of the Go map, which is any order.  The set of the results.
ExtractField(m, fieldID, fieldName) ==
    IF HasKey(m, fieldName) THEN { m.m[fieldName] }
    ELSE IF HasKey(m, fieldID) THEN { m.m[fieldID] }
    ELSE LET folded == { k \in DOMAIN m.m : ToLower(k) = ToLower(fieldName) }
         IN  IF folded # {} THEN { m.m[k] : k \in folded } ELSE { Nil }

\* formatFieldValue, the unwrapping of a map with `type` and `value`:
\* [ret, s] when the function returns s here, else [v] to go on with.
PreProcess(v, filter) ==
    IF IsMap(v) /\ IsString(Get(v, "type")) /\ HasKey(v, "value")
    THEN IF Get(v, "type").s \in {SingleOption, MultiOption} /\ Get(v, "value_extra") # Nil
         THEN [ret |-> TRUE, s |-> << >>, v |-> v]
         ELSE LET value == v.m["value"]
                  single == IsArray(value) /\ Len(value.a) = 1
              IN  IF /\ single
                     /\ IsMap(value.a[1])
                     /\ HasKey(value.a[1], "attachmentToken")
                     /\ IsString(Get(value.a[1], "name"))
                  THEN LET name == Get(value.a[1], "name").s
                       IN  [ret |-> TRUE,
                            s |-> IF ImageFiltered(name, filter) THEN << >> ELSE name,
                            v |-> value]
                  ELSE [ret |-> FALSE, s |-> << >>, v |-> value]
    ELSE [ret |-> FALSE, s |-> << >>, v |-> v]

\* A normalizer without the early check.
NoEarlyCheck(v) == FALSE

\* formatFieldValue, the early check: an option wrapper that carries value_extra.
EarlyCheck(v) ==
    /\ IsMap(v)
    /\ IsString(Get(v, "type"))
    /\ Get(v, "type").s \in {SingleOption, MultiOption}
    /\ Get(v, "value_extra") # Nil

\* case 1, one item of an array: the part it adds, if any.
TextPart(it, filter) ==
    IF IsMap(it)
    THEN IF IsString(Get(it, "text"))
         THEN IF ImageFiltered(Get(it, "text").s, filter) THEN << >> ELSE << Get(it, "text").s >>
         ELSE IF IsString(Get(it, "name"))
         THEN IF ImageFiltered(Get(it, "name").s, filter) THEN << >> ELSE << Get(it, "name").s >>
         ELSE << >>
    ELSE LET s == Sprint(it)
         IN  IF ImageFiltered(s, filter) THEN << >>
             ELSE IF s # << >> /\ s # EmptyMapText THEN << s >>
             ELSE << >>

\* case 1 (text)
FormatText(v, filter) ==
    IF IsMap(v)
    THEN IF StringAt(v, "text") # << >>
         THEN IF ImageFiltered(StringAt(v, "text"), filter) THEN << >> ELSE StringAt(v, "text")
         ELSE IF StringAt(v, "name") # << >>
         THEN IF ImageFiltered(StringAt(v, "name"), filter) THEN << >> ELSE StringAt(v, "name")
         ELSE << >>
    ELSE IF IsString(v) THEN IF ImageFiltered(v.s, filter) THEN << >> ELSE v.s
    ELSE IF IsArray(v)
    THEN JoinStrings(Flatten([i \in DOMAIN v.a |-> TextPart(v.a[i], filter)]), << "\n" >>)
    ELSE << >>

\* The non-empty fmt.Sprint of the items of m["text_arr"], joined by ",".
TextArrJoined(m) ==
    IF IsArray(Get(m, "text_arr"))
    THEN JoinStrings(NonEmptyParts(SprintAll(Get(m, "text_arr"))), << "," >>)
    ELSE << >>

\* case 18 (one-way link), the mapFn of its joinList.
LinkItemText(x) ==
    IF IsMap(x)
    THEN IF StringAt(x, "text") # << >> THEN StringAt(x, "text")
         ELSE IF IsArray(Get(x, "text_arr")) /\ Get(x, "text_arr").a # << >>
         THEN JoinStrings(SprintAll(Get(x, "text_arr")), << "," >>)
         ELSE << >>
    ELSE Sprint(x)

\* case 18 (one-way link)
FormatSingleLink(v) ==
    IF IsMap(v) /\ StringAt(v, "type") = TextType
    THEN IF StringAt(v, "text") # << >> THEN { StringAt(v, "text") }
         ELSE { TextArrJoined(v) }
    ELSE JoinList(v, [x \in ListItems(v) |-> { LinkItemText(x) }])

\* case 19 (lookup), the names of value_extra.options.
OptionNames(m) ==
    LET extra == Get(m, "value_extra")
        options == IF IsMap(extra) THEN Get(extra, "options") ELSE Nil
    IN  IF IsArray(options)
        THEN NonEmptyParts([i \in DOMAIN options.a |->
                 IF IsMap(options.a[i]) THEN StringAt(options.a[i], "name") ELSE << >>])
        ELSE << >>

\* case 19 (lookup)
FormatLookup(options, v) ==
    IF IsMap(v) /\ OptionNames(v) # << >> THEN JoinStrings(OptionNames(v), << "," >>)
    ELSE IF IsMap(v) /\ StringAt(v, "type") \in {SingleOption, MultiOption} THEN << >>
    ELSE IF IsMap(v) /\ StringAt(v, "text") # << >> THEN StringAt(v, "text")
    ELSE IF IsMap(v) /\ StringAt(v, "name") # << >> THEN StringAt(v, "name")
    ELSE MapSelectOptionName(options, v)

\* case 21 (two-way link), the mapFn of its joinList.
DuplexItemText(x) ==
    IF IsMap(x)
    THEN IF TextArrJoined(x) # << >> THEN TextArrJoined(x)
         ELSE StringAt(x, "text")
    ELSE << >>

\* case 17 (attachments), the mapFn of its joinList.
AttachmentName(x, filter) ==
    { IF ImageFiltered(name, filter) THEN << >> ELSE name : name \in PickStringField(x, "name") }

\* default case, one item of an array: the part it adds, if any.
DefaultPart(item, filter) ==
    IF IsMap(item) /\ StringAt(item, "text") # << >> THEN << StringAt(item, "text") >>
    ELSE IF IsMap(item) /\ StringAt(item, "name") # << >> THEN << StringAt(item, "name") >>
    ELSE IF IsMap(item) /\ HasKey(item, "attachmentToken") THEN << >>
    ELSE LET s == Sprint(item)
         IN  IF s # << >> /\ s # EmptyMapText THEN << s >> ELSE << >>

\* default case (unknown or composite types)
FormatDefault(v, filter) ==
    IF IsMap(v) /\ StringAt(v, "text") # << >> THEN StringAt(v, "text")
    ELSE IF IsMap(v) /\ StringAt(v, "name") # << >> THEN StringAt(v, "name")
    ELSE IF IsMap(v) /\ TextArrJoined(v) # << >> THEN TextArrJoined(v)
    ELSE LET parts == IF IsArray(v)
                      THEN Flatten([i \in DOMAIN v.a |-> DefaultPart(v.a[i], filter)])
                      ELSE << >>
         IN  IF parts # << >> THEN JoinStrings(parts, << "," >>)
             ELSE IF Sprint(v) \in {EmptyMapText, EmptyArrayText} THEN << >>
             ELSE Sprint(v)

\* case 5, 1001, 1002 (date and time)
FormatDate(v) == IF FormatTimeValue(v) # << >> THEN FormatTimeValue(v) ELSE Sprint(v)

\* formatFieldValue, the switch on the field type.
FormatByType(c, v, filter) ==
    CASE c.typ = 1 -> { FormatText(v, filter) }
      [] c.typ \in {2, 7} -> { Sprint(v) }
      [] c.typ = 3 -> { MapSelectOptionName(c.options, v) }
      [] c.typ = 4 -> JoinList(v, [x \in ListItems(v) |-> { MapSelectOptionName(c.options, x) }])
      [] c.typ \in {5, 1001, 1002} -> { FormatDate(v) }
      [] c.typ \in {11, 1003, 1004} -> JoinList(v, [x \in ListItems(v) |-> PickStringField(x, "name")])
      [] c.typ = 15 ->
            { IF s # << >> THEN s ELSE Sprint(v) : s \in PickStringField(v, "link") }
      [] c.typ = 17 -> JoinList(v, [x \in ListItems(v) |-> AttachmentName(x, filter)])
      [] c.typ = 18 -> FormatSingleLink(v)
      [] c.typ = 19 -> { FormatLookup(c.options, v) }
      [] c.typ = 21 -> JoinList(v, [x \in ListItems(v) |-> { DuplexItemText(x) }])
      [] OTHER -> { FormatDefault(v, filter) }

\* formatFieldValue: the strings the cell may be, one unless the value is a map
\* with keys that differ only in letter case.
FormatFieldValue(c, v, isCSV, filter) ==
    IF v = Nil THEN { << >> }
    ELSE LET p == PreProcess(v, filter)
         IN  IF p.ret THEN { p.s }
             ELSE IF EarlyCheck(p.v) THEN { << >> }
             ELSE FormatByType(c, p.v, filter)

(***************************************************************************)
(* The export of one cell of a table (the loop body of the exporter:       *)
(* extractField, then formatFieldValue), run twice on the same input.      *)
(***************************************************************************)
MaxItems == 2
MaxDelta == 1

\* The field types the exporter distinguishes, and one it does not (20).
FieldTypes == {1, 2, 3, 4, 5, 7, 11, 15, 17, 18, 19, 20, 21, 1001, 1002, 1003, 1004}
SelectTypes == {3, 4}
TimeTypes == {5, 1001, 1002}
RelationTypes == {18, 19, 21}

\* The options of a select field: "o1" is named, "o3" has an empty name.
FieldOptions == << [ID |-> << "o", "1" >>, Name |-> << "O", "n", "e" >>],
                  [ID |-> << "o", "3" >>, Name |-> << >>] >>

Columns ==
    { [typ |-> t, id |-> "fld", name |-> "name", options |-> o] :
          t \in FieldTypes, o \in {FieldOptions} }
    \cup { [typ |-> t, id |-> "fld", name |-> "name", options |-> << >>] :
          t \in SelectTypes \cup {19} }

CellStrings ==
    { << >>, << "x" >>, << "o", "1" >>, << "o", "2" >>, << "o", "3" >>,
      << "[", "o", "2", "]" >>, << "[", "o", "2" >>, << "o", "2", "]" >>,
      << "p", ".png" >>, << "p", ".PNG" >>, << "a", "b", "c" >>,
      << "0" >>, << " ", "5", " " >>, << "1", "7", "e", "1", "1" >> }

\* Timestamps in seconds around 10^8, 1.7 * 10^9 and 10^11.
SecondSamples ==
    { [hi |-> 100, lo |-> d] : d \in 0..MaxDelta }
    \cup { [hi |-> 1700, lo |-> d] : d \in 0..MaxDelta }
    \cup { [hi |-> 99999, lo |-> 999999 - d] : d \in 0..(MaxDelta - 1) }
    \cup { [hi |-> 100000, lo |-> 0] }

\* s * 1000 + r, for r < 1000
Millis(s, r) == [hi |-> s.hi * 1000 + s.lo \div 1000, lo |-> (s.lo % 1000) * 1000 + r]

CellNumbers ==
    { Zero, [hi |-> 0, lo |-> 1] } \cup SecondSamples
    \cup { Millis(s, r) : s \in SecondSamples, r \in {0, 999} }

Scalars == {Nil} \cup { Str(s) : s \in CellStrings } \cup { Num(n.hi, n.lo) : n \in CellNumbers }

\* The map that holds the keys whose value is not "absent".
Absent == [Nil EXCEPT !.t = "absent"]
Present(f) ==
    LET keys == { k \in DOMAIN f : f[k] # Absent } IN Map([k \in keys |-> f[k]])

AttachmentItem == Map([attachmentToken |-> Str(<< "t" >>), name |-> Str(<< "p", ".png" >>)])

\* The items of arrays: scalars, texts, users, attachments, options.
Items ==
    { Str(<< "x" >>), Str(<< "o", "2" >>), Str(<< >>), Str(<< "p", ".png" >>),
      Map([text |-> Str(<< "x" >>)]),
      Map([text_arr |-> Arr(<< Str(<< "x" >>), Str(<< "y" >>) >>)]),
      Map([name |-> Str(<< "n" >>)]),
      Map([record_ids |-> Arr(<< Str(<< "r" >>) >>)]),
      Map([id |-> Str(<< "o", "1" >>)]),
      Map([NAME |-> Str(<< "n", "1" >>), Name |-> Str(<< "n", "2" >>)]),
      Map([link |-> Str(<< "l" >>), text |-> Str(<< "x" >>)]),
      AttachmentItem }

RECURSIVE ItemLists(_)
ItemLists(n) ==
    IF n = 0 THEN { << >> }
    ELSE ItemLists(n - 1) \cup { Append(l, i) : l \in { k \in ItemLists(n - 1) : Len(k) = n - 1 },
                                                 i \in Items }

\* Wrapper objects: every combination of the keys the normalizer looks at.
Wrappers ==
    { Present(f) : f \in
        [ type        : { Absent, Str(SingleOption), Str(MultiOption), Str(TextType) },
          value_extra : { Absent, Nil, Str(<< "x" >>), EmptyMap,
                          Map([options |-> Arr(<< Map([name |-> Str(<< "A" >>)]) >>)]) },
          value       : { Absent, Nil, Str(<< "o", "2" >>), Arr(<< AttachmentItem >>) },
          text        : { Absent, Str(<< >>), Str(<< "x" >>) },
          text_arr    : { Absent, Arr(<< >>), Arr(<< Str(<< "y" >>) >>) },
          name        : { Absent, Str(<< "n" >>) } ] }

RawValues == Scalars \cup Items \cup { Arr(l) : l \in ItemLists(MaxItems) } \cup Wrappers

\* A record holds the value under the field's name, or under its id, or it
\* holds no such field but two whose names differ from it in letter case.
Records ==
    { Map([name |-> v]) : v \in RawValues }
    \cup { Map([fld |-> v]) : v \in Scalars }
    \cup { Map([NAME |-> v, Name |-> w]) : v, w \in { Nil, Str(<< "x" >>), Str(<< "o", "2" >>) } }
    \cup { EmptyMap }

CellInit ==
    /\ organize = TRUE
    /\ useTitle = FALSE
    /\ config = Documents
    /\ NoRun
    /\ export = NoCall
    /\ resolve = NoCall
    /\ wiki = NoCall
    /\ listing = NoCall
    /\ col \in Columns
    /\ rec \in Records
    /\ filterImages \in BOOLEAN
    /\ cell = NoCell
    /\ cell2 = NoCell

\* The strings the cell of record rec in column col may be.
CellResults(isCSV) ==
    UNION { FormatFieldValue(col, val, isCSV, filterImages) :
                val \in ExtractField(rec, col.id, col.name) }

\* The value formatFieldValue is given when the record holds one value for the column.
RawValue == CHOOSE val \in ExtractField(rec, col.id, col.name) : TRUE
SingleValued == Cardinality(ExtractField(rec, col.id, col.name)) = 1

ExportCell(isCSV) ==
    /\ cell = NoCell
    /\ cell' \in CellResults(isCSV)
    /\ UNCHANGED << organize, useTitle, runState, config, col, rec, filterImages, cell2, callVars >>

ExportCellAgain(isCSV) ==
    /\ cell # NoCell
    /\ cell2 = NoCell
    /\ cell2' \in CellResults(isCSV)
    /\ UNCHANGED << organize, useTitle, runState, config, col, rec, filterImages, cell, callVars >>

CellNext ==
    \/ \E isCSV \in BOOLEAN : ExportCell(isCSV)
    \/ \E isCSV \in BOOLEAN : ExportCellAgain(isCSV)

CellSpec == CellInit /\ [][CellNext]_vars

\* The column has no option with this id.
UnknownOption(id) == \A i \in DOMAIN col.options : col.options[i].ID # id

\* An id that mapSelectOptionName does not strip a bracket from.
Unbracketed(id) == id # << >> /\ Head(id) # "[" /\ id[Len(id)] # "]"

\* The cell has been exported from a record that holds one value for the column.
Exported == cell # NoCell /\ SingleValued

C15_OptionWrapperIsEmpty ==
    (/\ Exported
     /\ IsMap(RawValue)
     /\ StringAt(RawValue, "type") = SingleOption
     /\ Get(RawValue, "value_extra") # Nil)
        => cell = << >>

C15_Witness ==
    /\ col.typ = 19
    /\ Exported
    /\ RawValue = Map([type |-> Str(SingleOption),
                       value_extra |-> Map([options |-> Arr(<< Map([name |-> Str(<< "A" >>)]) >>)]),
                       text |-> Str(<< "x" >>)])
    /\ cell = << >>

(***************************************************************************)
(* C16.  For a date/time, created-time or modified-time field, a raw value *)
(* of 0, an absent value and a value that is not a number are exported as  *)
(* the empty string.                                                       *)
(***************************************************************************)
C16_ZeroOrMalformedDateIsEmpty ==
    (/\ Exported
     /\ col.typ \in TimeTypes
     /\ \/ RawValue = Nil
        \/ RawValue = Num(0, 0)
        \/ IsString(RawValue) /\ ~ToInt(RawValue).ok)
        => cell = << >>

\* a > b, for numbers written hi * 10^6 + lo
Greater(a, b) == a.hi > b.hi \/ (a.hi = b.hi /\ a.lo > b.lo)

TenToEight == [hi |-> 100, lo |-> 0]
TenToEleven == [hi |-> 100000, lo |-> 0]

(***************************************************************************)
(* C17.  For a timestamp field, a number n > 10^11 is exported as the      *)
(* instant n / 1000 seconds after the epoch and a number 0 < n <= 10^11 as *)
(* the instant n seconds after the epoch; hence for 10^8 < s <= 10^11 the  *)
(* number s * 1000 is exported as the number s is.                         *)
(***************************************************************************)
C17_MillisecondsAboveThreshold ==
    (Exported /\ col.typ \in TimeTypes /\ RawValue.t = "num") =>
        LET n == RawValue.n
        IN  /\ Greater(n, TenToEleven) =>
                   \E s \in SecondSamples, r \in {0, 999} : n = Millis(s, r) /\ cell = FormatUnix(s)
            /\ (Greater(n, Zero) /\ ~Greater(n, TenToEleven)) => cell = FormatUnix(n)
            /\ \A s \in SecondSamples :
                   (Greater(s, TenToEight) /\ ~Greater(s, TenToEleven) /\ n = Millis(s, 0))
                       => cell \in FormatFieldValue(col, Num(s.hi, s.lo), FALSE, filterImages)

C17_Witness ==
    /\ col.typ = 5
    /\ Exported
    /\ RawValue = Num(1700000, 999)
    /\ cell = << "time.Unix(", "1", "7", "0", "0", "0", "0", "0", "0", "0", "0", ")" >>

(***************************************************************************)
(* C18.  The export is deterministic: exporting the same record, column,   *)
(* filterImages and format twice gives the same cell, also when keys of a  *)
(* map differ only in letter case.                                         *)
(***************************************************************************)
C18_SameInputSameCell == (cell # NoCell /\ cell2 # NoCell) => cell = cell2

\* The map holds literal text: a non-empty `text` or a non-empty `text_arr`.
HasText(m) ==
    /\ IsMap(m)
    /\ \/ StringAt(m, "text") # << >>
       \/ IsArray(Get(m, "text_arr")) /\ Get(m, "text_arr").a # << >>

\* The raw value carries literal text, itself, in an item or in its `value`.
CarriesText(v) ==
    \/ HasText(v)
    \/ IsArray(v) /\ \E i \in DOMAIN v.a : HasText(v.a[i])
    \/ /\ IsMap(v)
       /\ HasKey(v, "value")
       /\ \/ HasText(Get(v, "value"))
          \/ IsArray(Get(v, "value")) /\ \E i \in DOMAIN Get(v, "value").a : HasText(Get(v, "value").a[i])

(***************************************************************************)
(* C19.  For a field of type 18 (one-way link), 19 (lookup) or 21 (two-way *)
(* link), a raw value that carries no literal text in `text` or `text_arr` *)
(* (a plain scalar, record ids, an option structure) is exported as the    *)
(* empty string.                                                           *)
(***************************************************************************)
C19_RelationWithoutTextIsEmpty ==
    (Exported /\ col.typ \in RelationTypes /\ ~CarriesText(RawValue)) => cell = << >>

\* The records of the planner's metadata directory that store the URL of
\* document d and name an output file that exists.
RecordsWithFile(d) ==
    { lines \in RecordsByURL(PlannerMetaDir(d), Documents[d].URL) :
          FileExists(Join(PlannerOutputDir(Documents[d], OutputDir),
                          LastValue(lines, "ActualFileName"))) }

\* A document target without a revision counter (a wiki page).
IsHashed(d) ==
    /\ Documents[d].Type \notin {"csv", "xlsx"}
    /\ ~ValidateDocumentURL(Documents[d].URL).err
    /\ ValidateDocumentURL(Documents[d].URL).docType # "docx"

(***************************************************************************)
(* C20.  In incremental mode, a target without a revision counter whose    *)
(* output file and record exist is planned exactly when the record stores  *)
(* no content hash or a hash that differs from the hash of the current     *)
(* title and content (the remote lookup succeeding).                       *)
(***************************************************************************)
C20_HashedTargetPlannedByHash ==
    (phase = "filter" /\ mode = "incremental") =>
        \A d \in DocIds : IsHashed(d) =>
            \A lines \in RecordsWithFile(d) :
                ShouldSyncDocument(Documents[d], OutputDir, mode, {})
                    <=> \/ FirstValue(lines, "ContentHash") = << >>
                        \/ FirstValue(lines, "ContentHash") # ContentHash(Documents[d].URL)

\* A csv/xlsx target.
IsTable(d) == Documents[d].Type \in {"csv", "xlsx"}

(***************************************************************************)
(* C21.  In incremental mode the planner excludes a csv/xlsx target        *)
(* exactly when some record of its metadata directory stores the target's  *)
(* URL and the output file named in that same record exists.               *)
(***************************************************************************)
C21_TablePlannedByOwnRecord ==
    (phase = "filter" /\ mode = "incremental") =>
        \A d \in DocIds : IsTable(d) =>
            (ShouldSyncDocument(Documents[d], OutputDir, mode, {}) <=> RecordsWithFile(d) = {})

(***************************************************************************)
(* The planner when a lookup of the local file system fails too: os.Stat   *)
(* of the paths of statDown returns an error other than "not exist".       *)
(***************************************************************************)

\* `filePath` of shouldSyncDocument, for the targets it computes one for.
PlannerFilePath(doc, outputDir) ==
    Join(PlannerOutputDir(doc, outputDir),
         WithExt(SanitizeFileName(IF useTitle THEN RemoteTitle(doc.URL) ELSE doc.Name), ".md"))

\* shouldSyncDocument returns (false, err): the os.Stat of the output file
\* fails and the error is not "not exist".
ShouldSyncError(doc, outputDir, syncMode, down) ==
    /\ syncMode = "incremental"
    /\ doc.Type \notin {"xlsx", "csv"}
    /\ ~ValidateDocumentURL(doc.URL).err
    /\ useTitle => (ValidateDocumentURL(doc.URL).docType = "docx" /\ doc.URL \notin down)
    /\ PlannerFilePath(doc, outputDir) \in statDown

\* filterDocumentsForSync returns the error of the first document that has one.
FilterError(documents, outputDir, syncMode, down) ==
    \E i \in DOMAIN documents : ShouldSyncError(Documents[documents[i]], outputDir, syncMode, down)

LookupInit == PlanStore /\ statDown \in SUBSET files

\* handleSyncRun calls filterDocumentsForSync and returns its error, if any.
LookupFilter ==
    /\ phase = "filter"
    /\ IF FilterError(GetDocuments, OutputDir, mode, lookupDown)
       THEN plan' = << >> /\ phase' = "done" /\ outcome' = 1
       ELSE /\ plan' = FilterDocumentsForSync(GetDocuments, OutputDir, mode, lookupDown)
            /\ IF plan' = << >>
               THEN phase' = "done" /\ outcome' = 0
               ELSE phase' = "dispatch" /\ outcome' = -1
    /\ UNCHANGED << config, cellVars, cfgVars, runVars, fsVars, rev, next, sem, wg, wpc, fetched, aggVars,
                    attempts >>

LookupNext == LookupFilter

LookupSpec == LookupInit /\ [][LookupNext]_vars

\* The planner stats the output file of d and the stat fails.
StatFailed(d) ==
    /\ ~IsTable(d)
    /\ useTitle => (IsDocx(d) /\ Documents[d].URL \notin lookupDown)
    /\ PlannerFilePath(Documents[d], OutputDir) \in statDown

\* The planner fetches the remote document of d and the fetch fails.
RemoteFailed(d) ==
    /\ ~IsTable(d)
    /\ Documents[d].URL \in lookupDown
    /\ IF useTitle THEN IsDocx(d)
       ELSE /\ FileExists(PlannerFilePath(Documents[d], OutputDir))
            /\ PlannerRecordPath(d) \in DOMAIN meta
            /\ FirstValue(meta[PlannerRecordPath(d)], "RevisionID") # << >>

(***************************************************************************)
(* C22.  In incremental mode a target whose planning makes a lookup that   *)
(* fails is planned, and the other targets are planned as they would be    *)
(* without the failure.                                                    *)
(***************************************************************************)
C22_FailedLookupIsPlanned ==
    [][ (phase = "filter" /\ mode = "incremental" /\ phase' # "filter") =>
            \A d \in DocIds :
                /\ (StatFailed(d) \/ RemoteFailed(d)) => \E i \in DOMAIN plan' : plan'[i] = d
                /\ ~(StatFailed(d) \/ RemoteFailed(d)) =>
                       (ShouldSyncDocument(Documents[d], OutputDir, mode, lookupDown)
                            <=> \E i \in DOMAIN plan' : plan'[i] = d) ]_vars

(***************************************************************************)
(* The naming policy of the planner against the one of the downloader: one *)
(* configured document, drawn from bounded sets, is downloaded once.       *)
(***************************************************************************)

\* The entries of a configuration file, the name left empty included.
NamedConfigs ==
    [Name : ConfigNames \cup { << >> }, URL : URLs, Group : ConfigGroups, Type : {"", "csv", "xlsx"}]

NameInit ==
    /\ organize \in BOOLEAN
    /\ useTitle \in BOOLEAN
    /\ \E doc \in NamedConfigs : config = << doc >>
    /\ NoRun
    /\ NoExport

\* The worker of handleSyncRun for the configured document: syncDocument
\* writes the output file into the directory the worker passes.
DownloadOne ==
    /\ files = {}
    /\ files' = { Join(WorkerOutputDir(config[1]), ActualFileName(config[1])) }
    /\ UNCHANGED << organize, useTitle, lookupDown, statDown, meta, rev, mode, force, conc, phase, plan,
                    next, sem, wg, wpc, fetched, aggVars, attempts, outcome, config, cellVars >>

NameNext == DownloadOne

NameSpec == NameInit /\ [][NameNext]_vars

\* The planner computes the path of the output file of the document (it is
\* not a table and not a non-docx source under use_original_title).
PlannerNames(doc) ==
    /\ doc.Type \notin {"csv", "xlsx"}
    /\ ~ValidateDocumentURL(doc.URL).err
    /\ useTitle => ValidateDocumentURL(doc.URL).docType = "docx"

(***************************************************************************)
(* C23.  For every document whose output path the planner computes, and   *)
(* every combination of use_original_title, source type and configured     *)
(* name, the path the planner expects is the path the downloader wrote.    *)
(***************************************************************************)
C23_PlannerPathForEveryName ==
    (files # {} /\ PlannerNames(config[1])) => PlannerFilePath(config[1], OutputDir) \in files

\* The same for the documents whose configured name is not empty when the
\* name is what names the file.
PlannerPathForNamedDocuments ==
    (files # {} /\ PlannerNames(config[1]) /\ (useTitle \/ config[1].Name # << >>))
        => PlannerFilePath(config[1], OutputDir) \in files

\* Worker d has finished a successful fetch of an incremental run and the
\* record it was to write is not there: the MkdirAll or the WriteFile failed.
RecordNotWritten(d) ==
    /\ mode = "incremental"
    /\ wpc[d] = "fin"
    /\ fetched[d].name # << >>
    /\ WrittenRecordPath(d) \notin DOMAIN meta

MaxPages == 3

\* One answer of GetBitableRecordPage: an error, or a page of n rows with
\* its has_more flag and its page token (empty or not).
PageAnswers ==
    [err : {TRUE}, n : {0}, HasMore : {FALSE}, PageToken : {""}]
    \cup [err : {FALSE}, n : {0, 1}, HasMore : BOOLEAN, PageToken : {"", "t"}]

\* What the remote answers to the successive page requests of one export.
PageFeeds == UNION { [1..k -> PageAnswers] : k \in 1..MaxPages }

\* The loop of exportBitable asks for another page after this answer.
AsksNext(ans) == ~ans.err /\ ans.HasMore /\ ans.PageToken # ""

\* The feed answers every request the loop makes and nothing more.
Answered(feed) ==
    /\ \A i \in 1..(Len(feed) - 1) : AsksNext(feed[i])
    /\ ~AsksNext(feed[Len(feed)])

\* The rows of page i, normalized.
PageRows(feed, i) == [j \in 1..feed[i].n |-> << i, j >>]

RECURSIVE RowsUpTo(_, _)
RowsUpTo(feed, i) == IF i = 0 THEN << >> ELSE RowsUpTo(feed, i - 1) \o PageRows(feed, i)

NoFile == << "<no file>" >>
OldFile == << "<old rows>" >>

\* No sync run, no configuration edit and no cell export is in progress.
Idle ==
    /\ organize = TRUE
    /\ useTitle = FALSE
    /\ config = Documents
    /\ NoRun
    /\ col = [typ |-> 0, id |-> "", name |-> "", options |-> << >>]
    /\ rec = << >>
    /\ filterImages = FALSE
    /\ cell = NoCell
    /\ cell2 = NoCell

idleVars == << organize, useTitle, runState, config, col, rec, filterImages, cell, cell2 >>

ExportInit ==
    /\ Idle
    /\ resolve = NoCall
    /\ wiki = NoCall
    /\ listing = NoCall
    /\ \E feed \in PageFeeds, fields \in {"ok", "empty", "err"}, format \in {"csv", "xlsx", "txt"},
          old \in {NoFile, OldFile}, dir \in BOOLEAN :
          /\ Answered(feed)
          /\ old = OldFile => dir
          /\ export = [pc |-> "fields", feed |-> feed, fields |-> fields, format |-> format,
                       page |-> 0, rows |-> << >>, dir0 |-> dir, dir |-> dir,
                       out0 |-> old, out |-> old, cause |-> ""]

ExportUnchanged == UNCHANGED << idleVars, resolve, wiki, listing >>

\* A variant that appends each page to the file as it arrives.
GetBitableRecordPageStreaming ==
    /\ export.pc = "page"
    /\ LET ans == export.feed[export.page + 1] IN
       export' = IF ans.err
                 THEN [export EXCEPT !.pc = "failed", !.cause = "records"]
                 ELSE [export EXCEPT !.page = @ + 1,
                                     !.rows = @ \o PageRows(export.feed, export.page + 1),
                                     !.dir = TRUE,
                                     !.out = export.rows \o PageRows(export.feed, export.page + 1),
                                     !.pc = IF AsksNext(ans) THEN "page" ELSE "mkdir"]
    /\ ExportUnchanged

\* client.GetBitableFieldList and the two checks on its result.
GetBitableFieldList ==
    /\ export.pc = "fields"
    /\ export' = IF export.fields = "ok"
                 THEN [export EXCEPT !.pc = "page"]
                 ELSE [export EXCEPT !.pc = "failed", !.cause = "fields"]
    /\ ExportUnchanged

\* One iteration of the paging loop: the request, the rows of the page, the
\* decision to go on.
GetBitableRecordPage ==
    /\ export.pc = "page"
    /\ LET ans == export.feed[export.page + 1] IN
       export' = IF ans.err
                 THEN [export EXCEPT !.pc = "failed", !.cause = "records"]
                 ELSE [export EXCEPT !.page = @ + 1,
                                     !.rows = @ \o PageRows(export.feed, export.page + 1),
                                     !.pc = IF AsksNext(ans) THEN "page" ELSE "mkdir"]
    /\ ExportUnchanged

\* os.MkdirAll(outputDir), then the switch on the format.
MkdirAll(ok) ==
    /\ export.pc = "mkdir"
    /\ export' = IF ~ok
                 THEN [export EXCEPT !.pc = "failed", !.cause = "mkdir"]
                 ELSE IF export.format \notin {"csv", "xlsx"}
                 THEN [export EXCEPT !.dir = TRUE, !.pc = "failed", !.cause = "format"]
                 ELSE [export EXCEPT !.dir = TRUE, !.pc = "write"]
    /\ ExportUnchanged

\* writeCSV / writeXLSX: the file holds all the rows, or the write fails
\* before the file is opened or after it was truncated.
WriteExport(ok) ==
    /\ export.pc = "write"
    /\ \/ ok /\ export' = [export EXCEPT !.out = export.rows, !.pc = "done"]
       \/ ~ok /\ \E left \in {export.out, << >>} :
                    export' = [export EXCEPT !.out = left, !.pc = "failed", !.cause = "write"]
    /\ ExportUnchanged

ExportNext ==
    \/ GetBitableFieldList
    \/ GetBitableRecordPage
    \/ \E ok \in BOOLEAN : MkdirAll(ok)
    \/ \E ok \in BOOLEAN : WriteExport(ok)

ExportSpec == ExportInit /\ [][ExportNext]_vars

FetchFailed == export.pc = "failed" /\ export.cause \in {"fields", "records"}

(***************************************************************************)
(* C25.  When the field fetch or a page fetch fails the export returns an  *)
(* error with the output directory and file as they were; the file is      *)
(* touched only once the last page has been read and all rows built.       *)
(***************************************************************************)
C25_NoFileBeforeLastPage ==
    /\ FetchFailed => (export.out = export.out0 /\ export.dir = export.dir0)
    /\ (export.out # export.out0 \/ export.dir # export.dir0) =>
           /\ export.page = Len(export.feed)
           /\ export.rows = RowsUpTo(export.feed, Len(export.feed))
           /\ \A i \in DOMAIN export.feed : ~export.feed[i].err
    /\ export.pc = "done" => export.out = RowsUpTo(export.feed, Len(export.feed))

C25_Witness ==
    /\ FetchFailed
    /\ export.cause = "records"
    /\ export.page = 2
    /\ Len(export.rows) = 2
    /\ export.out0 = OldFile

C25_WitnessWritten ==
    /\ export.pc = "done"
    /\ Len(export.out) = 3

(***************************************************************************)
(* resolveBitableAppToken on a page with embedded tables.                  *)
(***************************************************************************)
BlockIds == 1..3
AppTokens == {"t1", "t2"}

\* The shapes of the block list of the page: Parent 0 is the empty ParentID,
\* Parent 9 the id of a block that is not in the list.
BlockShapes ==
    { << [Parent |-> 0, Children |-> << 2, 3 >>], [Parent |-> 1, Children |-> << >>],
         [Parent |-> 1, Children |-> << >>] >>,
      << [Parent |-> 0, Children |-> << 3, 2 >>], [Parent |-> 1, Children |-> << >>],
         [Parent |-> 1, Children |-> << >>] >>,
      << [Parent |-> 0, Children |-> << 2 >>], [Parent |-> 1, Children |-> << 3 >>],
         [Parent |-> 2, Children |-> << >>] >>,
      << [Parent |-> 9, Children |-> << 2 >>], [Parent |-> 9, Children |-> << >>],
         [Parent |-> 9, Children |-> << >>] >> }

\* The Bitable token of each block ("": the block is no Bitable block).
BlockTokens == [BlockIds -> AppTokens \cup {""}]

\* visit(id): the tokens of the block and of its descendants, depth first.
RECURSIVE Visit(_, _, _)
RECURSIVE VisitAll(_, _, _)
Visit(shape, tok, id) ==
    IF id \notin DOMAIN shape THEN << >>
    ELSE (IF tok[id] # "" THEN << tok[id] >> ELSE << >>) \o VisitAll(shape, tok, shape[id].Children)
VisitAll(shape, tok, ids) ==
    IF ids = << >> THEN << >>
    ELSE Visit(shape, tok, Head(ids)) \o VisitAll(shape, tok, Tail(ids))

\* The first block whose ParentID is empty or its own id, 0 when there is none.
RootOf(shape) ==
    LET roots == { i \in DOMAIN shape : shape[i].Parent = 0 \/ shape[i].Parent = i }
    IN IF roots = {} THEN 0 ELSE CHOOSE i \in roots : \A j \in roots : i <= j

CandidateTokens(shape, tok) ==
    IF RootOf(shape) # 0 THEN Visit(shape, tok, RootOf(shape))
    ELSE VisitAll(shape, tok, [i \in DOMAIN shape |-> i])

\* The tokens in order, each kept at its first occurrence.
RECURSIVE Uniq(_)
Uniq(tokens) ==
    IF tokens = << >> THEN << >>
    ELSE LET front == Uniq(SubSeq(tokens, 1, Len(tokens) - 1))
             last == tokens[Len(tokens)]
         IN IF \E i \in DOMAIN front : front[i] = last THEN front ELSE Append(front, last)

\* The loop over uniq and what follows it; listable are the tokens for which
\* GetBitableFieldList of the target table succeeds.
ProbeCandidates(uniq, listable) ==
    IF uniq = << >> THEN [token |-> "", err |-> TRUE]
    ELSE IF \E i \in DOMAIN uniq : uniq[i] \in listable
    THEN [token |-> uniq[CHOOSE i \in DOMAIN uniq :
                             /\ uniq[i] \in listable
                             /\ \A j \in 1..(i - 1) : uniq[j] \notin listable],
          err |-> FALSE]
    ELSE [token |-> uniq[1], err |-> FALSE]

ResolveInit ==
    /\ Idle
    /\ export = NoCall
    /\ wiki = NoCall
    /\ listing = NoCall
    /\ \E shape \in BlockShapes, tok \in BlockTokens, listable \in SUBSET AppTokens,
          contentErr \in BOOLEAN :
          resolve = [pc |-> "call", shape |-> shape, tok |-> tok, listable |-> listable,
                     contentErr |-> contentErr, token |-> "", err |-> FALSE]

\* resolveBitableAppToken of a docx page (or of a wiki node of type docx).
ResolveBitableAppToken ==
    /\ resolve.pc = "call"
    /\ LET res == IF resolve.contentErr THEN [token |-> "", err |-> TRUE]
                  ELSE ProbeCandidates(Uniq(CandidateTokens(resolve.shape, resolve.tok)),
                                       resolve.listable)
       IN resolve' = [resolve EXCEPT !.pc = "returned", !.token = res.token, !.err = res.err]
    /\ UNCHANGED << idleVars, export, wiki, listing >>

ResolveNext == ResolveBitableAppToken

ResolveSpec == ResolveInit /\ [][ResolveNext]_vars

Resolved == resolve.pc = "returned" /\ ~resolve.err

(***************************************************************************)
(* C26.  A token returned for an embedded table has listed the target      *)
(* table's fields, and resolution fails when no candidate can.             *)
(***************************************************************************)
C26_ReturnedTokenPassedProbe ==
    Resolved => resolve.token \in resolve.listable

\* What does hold: the result is the first candidate in traversal order that
\* lists the fields, the first candidate when none does, and an error only
\* when the page holds no candidate or cannot be read.
FirstListableElseFirst ==
    resolve.pc = "returned" =>
        LET uniq == Uniq(CandidateTokens(resolve.shape, resolve.tok)) IN
        /\ resolve.err <=> (resolve.contentErr \/ uniq = << >>)
        /\ Resolved =>
              \E i \in DOMAIN uniq :
                  /\ resolve.token = uniq[i]
                  /\ \A j \in 1..(i - 1) : uniq[j] \notin resolve.listable
                  /\ uniq[i] \in resolve.listable \/ (i = 1 /\ \A j \in DOMAIN uniq : uniq[j] \notin resolve.listable)

(***************************************************************************)
(* downloadWiki: the traversal schedules one goroutine per docx node       *)
(* behind a semaphore of maxConcurrency slots; a failed download sends its *)
(* error on the unbuffered errChan before it calls wg.Done and gives its   *)
(* slot back.  The goroutines run the same code and are counted by their   *)
(* position.                                                               *)
(***************************************************************************)
MaxConcurrency == 10
MaxNodes == 12

WikiInit ==
    /\ Idle
    /\ export = NoCall
    /\ resolve = NoCall
    /\ listing = NoCall
    /\ \E n \in 0..MaxNodes :
          wiki = [pc |-> "walk", n |-> n, next |-> 1, sem |-> 0, wg |-> 0,
                  run |-> 0, send |-> 0, done |-> 0, rel |-> 0, fin |-> 0,
                  failed |-> 0, closed |-> FALSE, ret |-> "none"]

WikiUnchanged == UNCHANGED << idleVars, export, resolve, listing >>

\* downloadWikiNode fails on client.GetWikiNodeList: downloadWiki returns it.
ListFails ==
    /\ wiki.pc = "walk"
    /\ wiki' = [wiki EXCEPT !.pc = "returned", !.ret = "err"]
    /\ WikiUnchanged

\* The next docx node: wg.Add(1); or the traversal is over and downloadWiki
\* starts the closer goroutine and ranges over errChan.
WgAdd ==
    /\ wiki.pc = "walk"
    /\ wiki' = IF wiki.next <= wiki.n
               THEN [wiki EXCEPT !.wg = @ + 1, !.pc = "acquire"]
               ELSE [wiki EXCEPT !.pc = "range"]
    /\ WikiUnchanged

\* semaphore <- struct{}{} and the go statement.
Acquire ==
    /\ wiki.pc = "acquire"
    /\ wiki.sem < MaxConcurrency
    /\ wiki' = [wiki EXCEPT !.sem = @ + 1, !.run = @ + 1, !.next = @ + 1, !.pc = "walk"]
    /\ WikiUnchanged

\* downloadDocument in a goroutine.
DownloadNode(ok) ==
    /\ wiki.run > 0
    /\ wiki' = IF ok THEN [wiki EXCEPT !.run = @ - 1, !.done = @ + 1]
               ELSE [wiki EXCEPT !.run = @ - 1, !.send = @ + 1, !.failed = @ + 1]
    /\ WikiUnchanged

\* errChan <- err meets the receive of `for err := range errChan`, which returns.
SendError ==
    /\ wiki.send > 0
    /\ wiki.pc = "range"
    /\ wiki' = [wiki EXCEPT !.send = @ - 1, !.done = @ + 1, !.pc = "returned", !.ret = "err"]
    /\ WikiUnchanged

\* wg.Done()
WgDone ==
    /\ wiki.done > 0
    /\ wiki' = [wiki EXCEPT !.done = @ - 1, !.rel = @ + 1, !.wg = @ - 1]
    /\ WikiUnchanged

\* <-semaphore
Release ==
    /\ wiki.rel > 0
    /\ wiki' = [wiki EXCEPT !.rel = @ - 1, !.fin = @ + 1, !.sem = @ - 1]
    /\ WikiUnchanged

\* The closer goroutine: wg.Wait() returned, close(errChan).
CloseErrChan ==
    /\ wiki.pc \in {"range", "returned"}
    /\ wiki.next > wiki.n
    /\ wiki.wg = 0
    /\ ~wiki.closed
    /\ wiki' = [wiki EXCEPT !.closed = TRUE]
    /\ WikiUnchanged

\* The range loop ends on the closed channel: return nil.
ReturnNil ==
    /\ wiki.pc = "range"
    /\ wiki.closed
    /\ wiki' = [wiki EXCEPT !.pc = "returned", !.ret = "nil"]
    /\ WikiUnchanged

WikiNext ==
    \/ ListFails
    \/ WgAdd
    \/ Acquire
    \/ \E ok \in BOOLEAN : DownloadNode(ok)
    \/ SendError
    \/ WgDone
    \/ Release
    \/ CloseErrChan
    \/ ReturnNil

WikiSpec == WikiInit /\ [][WikiNext]_vars

\* The traversal waits for a slot, every slot is held by a goroutine that
\* waits for a receiver on errChan, and the only receiver is the traversal.
BlockedOnGate ==
    /\ wiki.pc = "acquire"
    /\ wiki.sem = MaxConcurrency
    /\ wiki.send = MaxConcurrency

(***************************************************************************)
(* C27.  downloadWiki is never blocked for good: the traversal never waits *)
(* for a slot that no goroutine can give back.                             *)
(***************************************************************************)
C27_NeverBlockedOnGate == ~BlockedOnGate

\* What does hold: at most maxConcurrency downloads are in flight, nil is
\* returned only when no download failed, and in a state where downloadWiki
\* has not returned and no step is possible the traversal is blocked on the gate.
WikiGateAndResult ==
    /\ wiki.sem <= MaxConcurrency
    /\ wiki.sem = wiki.run + wiki.send + wiki.done + wiki.rel
    /\ wiki.ret = "nil" => wiki.failed = 0
    /\ (wiki.pc # "returned" /\ ~ENABLED WikiNext) => BlockedOnGate

(***************************************************************************)
(* Client.GetWikiNodeList: the first request, then the loop that follows   *)
(* the page token.  A page token is the number of the page it asks for, 0  *)
(* the empty token; page i holds the one node i.                           *)
(***************************************************************************)
MaxListPages == 3

ListAnswers(k) == [err : BOOLEAN, HasMore : BOOLEAN, PageToken : 0..k]

\* The listings the remote may hold: what it answers for each page.
Listings == UNION { [1..k -> ListAnswers(k)] : k \in 1..MaxListPages }

\* The answer to a request with this page token (nil and "" ask for the first page).
ListPage(pages, token) == IF token = 0 THEN pages[1] ELSE pages[token]
PageNodes(token) == << IF token = 0 THEN 1 ELSE token >>

ListInit ==
    /\ Idle
    /\ export = NoCall
    /\ resolve = NoCall
    /\ wiki = NoCall
    /\ \E pages \in Listings :
          listing = [pc |-> "first", pages |-> pages, resp |-> [err |-> FALSE, HasMore |-> FALSE, PageToken |-> 0],
                     previousPageToken |-> 0, nodes |-> << >>, requests |-> 0, err |-> FALSE]

ListUnchanged == UNCHANGED << idleVars, export, resolve, wiki >>

\* The request before the loop.
FirstRequest ==
    /\ listing.pc = "first"
    /\ LET ans == ListPage(listing.pages, 0) IN
       listing' = IF ans.err
                  THEN [listing EXCEPT !.pc = "returned", !.err = TRUE, !.requests = 1]
                  ELSE [listing EXCEPT !.pc = "loop", !.resp = ans, !.nodes = PageNodes(0),
                                       !.requests = 1]
    /\ ListUnchanged

\* One evaluation of the loop condition and, when it holds, one iteration.
\* The `resp, _, err :=` of the body declares a resp of its own: the resp of
\* the condition stays the first answer.
LoopRequest ==
    /\ listing.pc = "loop"
    /\ listing' =
          IF listing.resp.HasMore /\ listing.previousPageToken # listing.resp.PageToken
          THEN LET inner == ListPage(listing.pages, listing.resp.PageToken) IN
               IF inner.err
               THEN [listing EXCEPT !.pc = "returned", !.err = TRUE, !.nodes = << >>,
                                    !.previousPageToken = listing.resp.PageToken,
                                    !.requests = @ + 1]
               ELSE [listing EXCEPT !.previousPageToken = listing.resp.PageToken,
                                    !.nodes = @ \o PageNodes(listing.resp.PageToken),
                                    !.requests = @ + 1]
          ELSE [listing EXCEPT !.pc = "returned"]
    /\ ListUnchanged

ListNext ==
    \/ FirstRequest
    \/ LoopRequest

ListSpec == ListInit /\ [][ListNext]_vars

\* The remote pages its listing properly: page i says there is more and
\* gives the token of page i+1, except the last, and no request fails.
Paged(pages) ==
    \A i \in DOMAIN pages :
        /\ ~pages[i].err
        /\ pages[i].HasMore <=> i < Len(pages)
        /\ pages[i].PageToken = IF i < Len(pages) THEN i + 1 ELSE 0

(***************************************************************************)
(* C28.  GetWikiNodeList returns the nodes of every page of a properly     *)
(* paged listing, in order and once each.                                  *)
(***************************************************************************)
C28_EveryPageListed ==
    (listing.pc = "returned" /\ Paged(listing.pages)) =>
        listing.nodes = [i \in 1..Len(listing.pages) |-> i]

\* What does hold: the call ends after at most two requests, and for a
\* properly paged listing it returns the nodes of the first two pages.
AtMostTwoPagesListed ==
    /\ listing.requests <= 2
    /\ (listing.pc = "returned" /\ Paged(listing.pages)) =>
           listing.nodes = [i \in 1..(IF Len(listing.pages) > 1 THEN 2 ELSE 1) |-> i]

(***************************************************************************)
(* `sync add` and `sync remove` on a configuration: AddDocument and        *)
(* RemoveDocument as the methods compute them, the refusals included.      *)
(***************************************************************************)
EditNames == { << "a" >>, << "b" >>, << "1" >>, << "0" >>, << "1", "a" >> }
EditArgs == EditNames \cup { << "2" >>, << "-", "1" >>, << "z" >> }

\* The longest prefix of decimal digits.
RECURSIVE DigitPrefix(_)
DigitPrefix(s) ==
    IF s = << >> \/ Head(s) \notin Digits THEN << >>
    ELSE << Head(s) >> \o DigitPrefix(Tail(s))

RECURSIVE IntOf(_, _)
IntOf(s, n) == IF s = << >> THEN n ELSE IntOf(Tail(s), n * 10 + DigitValue(Head(s)))

\* fmt.Sscanf(nameOrIndex, "%d", &index): an optional sign and the digits
\* that follow; what comes after the digits is not read.
Sscanf(s) ==
    LET signed == s # << >> /\ Head(s) \in {"-", "+"}
        ds == DigitPrefix(IF signed THEN Tail(s) ELSE s)
    IN  IF ds = << >> THEN [ok |-> FALSE, index |-> 0]
        ELSE [ok |-> TRUE,
              index |-> IF signed /\ Head(s) = "-" THEN 0 - IntOf(ds, 0) ELSE IntOf(ds, 0)]

\* An AddDocument that looks at the URL only.
AddDocumentByURL(docs, name, url, group) ==
    IF \E i \in DOMAIN docs : docs[i].URL = url
    THEN [docs |-> docs, err |-> TRUE]
    ELSE [docs |-> Append(docs, [Name |-> name, URL |-> url, Group |-> group, Type |-> ""]),
          err |-> FALSE]

\* (c *SyncConfig) AddDocument: the new list and whether an error is returned.
AddDocumentTo(docs, name, url, group) ==
    IF \E i \in DOMAIN docs : docs[i].URL = url \/ docs[i].Name = name
    THEN [docs |-> docs, err |-> TRUE]
    ELSE [docs |-> Append(docs, [Name |-> name, URL |-> url, Group |-> group, Type |-> ""]),
          err |-> FALSE]

\* (c *SyncConfig) RemoveDocument: the index is tried first, then the name.
RemoveDocument(docs, nameOrIndex) ==
    LET scan == Sscanf(nameOrIndex)
        named == { i \in DOMAIN docs : docs[i].Name = nameOrIndex }
    IN  IF scan.ok
        THEN IF scan.index >= 0 /\ scan.index < Len(docs)
             THEN [docs |-> WithoutDocument(docs, scan.index + 1), err |-> FALSE]
             ELSE [docs |-> docs, err |-> TRUE]
        ELSE IF named # {}
        THEN [docs |-> WithoutDocument(docs, CHOOSE i \in named : \A j \in named : i <= j),
              err |-> FALSE]
        ELSE [docs |-> docs, err |-> TRUE]

\* Pairwise distinct names and pairwise distinct URLs.
DistinctDocuments(docs) ==
    \A i, j \in DOMAIN docs : i # j => (docs[i].Name # docs[j].Name /\ docs[i].URL # docs[j].URL)

EditInit ==
    /\ organize = TRUE
    /\ useTitle = FALSE
    /\ config = << >>
    /\ NoRun
    /\ NoExport

editUnchanged == << cfgVars, fsVars, rev, runVars, phase, plan, next, sem, wg, wpc, fetched,
                    aggVars, attempts, cellVars >>

\* handleSyncAdd: AddDocument, then Save; the command's exit status.
SyncAdd(name, url, group, saved) ==
    /\ Len(config) < MaxDocs \/ AddDocumentTo(config, name, url, group).err
    /\ LET r == AddDocumentTo(config, name, url, group) IN
       /\ config' = IF r.err \/ ~saved THEN config ELSE r.docs
       /\ outcome' = IF r.err \/ ~saved THEN 1 ELSE 0
    /\ UNCHANGED editUnchanged

\* handleSyncRemove: RemoveDocument, then Save; the command's exit status.
SyncRemove(nameOrIndex, saved) ==
    /\ LET r == RemoveDocument(config, nameOrIndex) IN
       /\ config' = IF r.err \/ ~saved THEN config ELSE r.docs
       /\ outcome' = IF r.err \/ ~saved THEN 1 ELSE 0
    /\ UNCHANGED editUnchanged

EditNext ==
    \/ \E n \in EditNames, u \in URLs, g \in ConfigGroups, saved \in BOOLEAN : SyncAdd(n, u, g, saved)
    \/ \E arg \in EditArgs, saved \in BOOLEAN : SyncRemove(arg, saved)

EditSpec == EditInit /\ [][EditNext]_vars

(***************************************************************************)
(* C29.  AddDocument and RemoveDocument keep the names and the URLs of the *)
(* documents pairwise distinct, and a refused AddDocument or a failed      *)
(* RemoveDocument leaves the list as it was.                               *)
(***************************************************************************)
C29_EditsKeepDocumentsDistinct ==
    /\ DistinctDocuments(config)
    /\ \A n \in EditNames, u \in URLs, g \in ConfigGroups :
          LET r == AddDocumentTo(config, n, u, g) IN
          /\ DistinctDocuments(r.docs)
          /\ r.err => r.docs = config
    /\ \A arg \in EditArgs :
          LET r == RemoveDocument(config, arg) IN
          /\ DistinctDocuments(r.docs)
          /\ r.err => r.docs = config

C29_Witness ==
    /\ Len(config) = MaxDocs
    /\ outcome = 1
    /\ \E n \in EditNames, u \in URLs : AddDocumentTo(config, n, u, << >>).err
    /\ \E arg \in EditArgs : RemoveDocument(config, arg).err

(***************************************************************************)
(* C30.  RemoveDocument given the name of a configured document removes    *)
(* that document and no other, whatever the name; given a valid index it   *)
(* removes the document at that index.                                     *)
(***************************************************************************)
C30_RemoveByNameRemovesThatDocument ==
    \A i \in DOMAIN config :
        RemoveDocument(config, config[i].Name) = [docs |-> WithoutDocument(config, i), err |-> FALSE]

\* What does hold: names that do not start with a number, and indexes.
RemoveByLetterNameOrIndex ==
    /\ \A i \in DOMAIN config : ~Sscanf(config[i].Name).ok =>
          RemoveDocument(config, config[i].Name) = [docs |-> WithoutDocument(config, i), err |-> FALSE]
    /\ \A i \in DOMAIN config :
          RemoveDocument(config, << ToString(i - 1) >>) = [docs |-> WithoutDocument(config, i), err |-> FALSE]

====
